---- MODULE Spec2Model ----
(***************************************************************************)
(* Model of the audio mixing engine of audio/audio.c: software voices     *)
(* multiplexed onto hardware voices, capture sinks tapping the playback   *)
(* hardware voices, and the capture (recording) path.                     *)
(*                                                                         *)
(* Frame counters are size_t in the source; they are kept modulo          *)
(* 2^SizeBits here.  The 32.32 fixed point ratios of the source are kept  *)
(* with FracBits fraction bits; the modelled rates are powers of two, for *)
(* which every quotient the engine computes is the same in either width.  *)
(***************************************************************************)
EXTENDS Integers, Sequences, FiniteSets, TLC

(* ------------------------------ bounds -------------------------------- *)
BufSize == 2
SizeBits == 6
FracBits == 4
MaxChunks == 2
MaxCallbacks == 2
MaxLegacy == 8
FrameSamples == 2
IntBits == 6

(* ----------------------------- constants ------------------------------ *)
VOICE_ENABLE == 1
VOICE_DISABLE == 2
AUD_CNOTIFY_ENABLE == 0
AUD_CNOTIFY_DISABLE == 1

SIZE_MAX == 2^SizeBits - 1
FracOne == 2^FracBits

audio_MIN(a, b) == IF a < b THEN a ELSE b

\* unsigned (size_t) subtraction
USub(a, b) == (a - b) % (SIZE_MAX + 1)

\* x << n and x >> n on non-negative integers
Shl(x, n) == x * 2^n
Shr(x, n) == x \div 2^n

\* the elements of a sequence, and a sequence without one element
Range(q) == {q[i] : i \in 1..Len(q)}
Without(q, x) == SelectSeq(q, LAMBDA y : y # x)

(* --------------------------- rate converter --------------------------- *)
\* sw->ratio = ((int64_t) dst_freq << 32) / src_freq
Ratio(dst_freq, src_freq) == Shl(dst_freq, FracBits) \div src_freq

\* st_rate_start (inrate, outrate): opos_inc = (inrate << 32) / outrate
st_rate_start(inrate, outrate) ==
    [opos |-> 0, ipos |-> 0, opos_inc |-> Shl(inrate, FracBits) \div outrate]

\* The positions grow without bound in the converter; only their distance
\* decides what it does, so both are kept relative to the whole input
\* frames that both have passed.
RateNorm(r) ==
    LET base == audio_MIN(r.ipos, Shr(r.opos, FracBits))
    IN  [r EXCEPT !.ipos = r.ipos - base,
                  !.opos = r.opos - Shl(base, FracBits)]

RECURSIVE RateLoop(_, _, _, _, _)
RateLoop(r, icons, oprod, isamp, osamp) ==
    IF oprod >= osamp \/ icons >= isamp
    THEN [rate |-> r, isamp |-> icons, osamp |-> oprod]
    ELSE IF r.ipos <= Shr(r.opos, FracBits)
         THEN \* read input samples until ipos > opos
              IF icons + 1 >= isamp
              THEN [rate |-> [r EXCEPT !.ipos = r.ipos + 1],
                    isamp |-> icons + 1, osamp |-> oprod]
              ELSE RateLoop([r EXCEPT !.ipos = r.ipos + 1],
                            icons + 1, oprod, isamp, osamp)
         ELSE \* output one interpolated sample
              RateLoop([r EXCEPT !.opos = r.opos + r.opos_inc],
                       icons, oprod + 1, isamp, osamp)

\* st_rate_flow_mix (rate, ibuf, obuf, &isamp, &osamp): consumes up to
\* isamp source frames, produces up to osamp destination frames
st_rate_flow_mix(r, isamp, osamp) ==
    IF r.opos_inc = FracOne
    THEN LET n == audio_MIN(isamp, osamp)
         IN  [rate |-> r, isamp |-> n, osamp |-> n]
    ELSE LET res == RateLoop(r, 0, 0, isamp, osamp)
         IN  [res EXCEPT !.rate = RateNorm(res.rate)]

(* ----------------------- soft voice (playback) ------------------------ *)
\* the mixing loop of audio_pcm_sw_write; `slots` lists the positions
\* of the mix buffer that st_rate_flow_mix mixed into, in order
RECURSIVE SwWriteLoop(_, _, _, _, _, _, _, _)
SwWriteLoop(hwsamples, r, swlim, live, wpos, ret, total, slots) ==
    LET dead == hwsamples - live
        left == hwsamples - wpos
        blck == audio_MIN(dead, left)
    IN  IF swlim = 0 \/ blck = 0
        THEN [rate |-> r, ret |-> ret, total |-> total, slots |-> slots]
        ELSE LET f == st_rate_flow_mix(r, swlim, blck)
             IN  SwWriteLoop(hwsamples, f.rate, swlim - f.isamp,
                             live + f.osamp, (wpos + f.osamp) % hwsamples,
                             ret + f.isamp, total + f.osamp,
                             slots \o [i \in 1..f.osamp |-> wpos + i - 1])

\* audio_pcm_sw_write that does not add the frames it mixed to
\* total_hw_samples_mixed
audio_pcm_sw_write_forgets_total(v, hwsamples, pos, size) ==
    LET live == v.mixed
    IN  IF live > hwsamples THEN [v |-> v, ret |-> 0, slots |-> <<>>]
        ELSE IF live = hwsamples THEN [v |-> v, ret |-> 0, slots |-> <<>>]
        ELSE
        LET wpos == (pos + live) % hwsamples
            samples == Shr(size, v.shift)
            dead == hwsamples - live
            swlim == audio_MIN(Shl(dead, FracBits) \div v.ratio, samples)
            w == SwWriteLoop(hwsamples, v.rate, swlim, live, wpos, 0, 0, <<>>)
        IN  [v |-> [v EXCEPT !.empty = (v.mixed = 0), !.rate = w.rate],
             ret |-> Shl(w.ret, v.shift), slots |-> w.slots]

\* audio_pcm_sw_write that starts mixing at the read position of the mix
\* buffer, whatever the voice has mixed already
audio_pcm_sw_write_from_pos(v, hwsamples, pos, size) ==
    LET live == v.mixed
    IN  IF live > hwsamples THEN [v |-> v, ret |-> 0, slots |-> <<>>]
        ELSE IF live = hwsamples THEN [v |-> v, ret |-> 0, slots |-> <<>>]
        ELSE
        LET wpos == pos % hwsamples
            samples == Shr(size, v.shift)
            dead == hwsamples - live
            swlim == audio_MIN(Shl(dead, FracBits) \div v.ratio, samples)
            w == SwWriteLoop(hwsamples, v.rate, swlim, live, wpos, 0, 0, <<>>)
            mixed == (v.mixed + w.total) % (SIZE_MAX + 1)
        IN  [v |-> [v EXCEPT !.mixed = mixed, !.empty = (mixed = 0),
                             !.rate = w.rate],
             ret |-> Shl(w.ret, v.shift), slots |-> w.slots]

\* audio_pcm_sw_write on a voice v = [mixed, empty, ratio, rate, shift]
\* attached to a mix buffer of hwsamples frames read at position pos;
\* the result is the voice after the call, the returned byte count and the
\* positions of the mix buffer it mixed into
audio_pcm_sw_write(v, hwsamples, pos, size) ==
    LET live == v.mixed
    IN  IF live > hwsamples THEN [v |-> v, ret |-> 0, slots |-> <<>>]
        ELSE IF live = hwsamples THEN [v |-> v, ret |-> 0, slots |-> <<>>]
        ELSE
        LET wpos == (pos + live) % hwsamples
            samples == Shr(size, v.shift)
            dead == hwsamples - live
            swlim == audio_MIN(Shl(dead, FracBits) \div v.ratio, samples)
            w == SwWriteLoop(hwsamples, v.rate, swlim, live, wpos, 0, 0, <<>>)
            mixed == (v.mixed + w.total) % (SIZE_MAX + 1)
        IN  [v |-> [v EXCEPT !.mixed = mixed, !.empty = (mixed = 0),
                             !.rate = w.rate],
             ret |-> Shl(w.ret, v.shift), slots |-> w.slots]

\* audio_get_free
audio_get_free(v, hwsamples) ==
    LET live == v.mixed
    IN  IF live > hwsamples THEN 0
        ELSE Shl(Shl(hwsamples - live, FracBits) \div v.ratio, v.shift)

(* ------------------------------ topology ------------------------------ *)
\* hardware playback voices, software playback voices, capture sinks (one
\* per distinct settings) and capture callbacks (their opaque values)
HW == {1, 2}
SW == {1, 2, 3}
CAP == {1, 2}
CB == {1, 2}

\* info.shift and info.freq of the modelled voices
InfoShift == 1
InfoFreq == 1

VARIABLES
    s,      \* the AudioState: voices, sinks, their lists and counters
    run,    \* where audio_run is (idle, or inside audio_run_out)
    obs     \* what the latest engine step did (calls into backend and
            \* devices, values it computed)

vars == <<s, run, obs>>

(* ------------------------------ capture ------------------------------- *)
\* the taps of sink c that are active
ActiveTaps(st, c) == {h \in Range(st.cap[c].sws) : st.tap[h][c].active = 1}

\* history kept for the claims: when the number of active taps of sink c
\* changes between zero and non-zero, the notification each registered
\* callback of the sink is due
CountChange(st, before, c) ==
    LET was == (before # {})
        is == (ActiveTaps(st, c) # {})
        cmd == IF is THEN AUD_CNOTIFY_ENABLE ELSE AUD_CNOTIFY_DISABLE
    IN  IF was = is THEN st
        ELSE [st EXCEPT !.trans = @ \o [i \in 1..Len(st.cap[c].cbs) |->
                                           <<c, st.cap[c].cbs[i], cmd>>]]

\* sc->sw.active = on
SetTapActive(st, h, c, on) ==
    CountChange([st EXCEPT !.tap[h][c].active = on], ActiveTaps(st, c), c)

\* audio_notify_capture: cb->ops.notify (cb->opaque, cmd) for each callback
audio_notify_capture(st, c, cmd) ==
    [st EXCEPT !.notes = @ \o [i \in 1..Len(st.cap[c].cbs) |->
                                  <<c, st.cap[c].cbs[i], cmd>>],
               !.lastnote[c] = [b \in CB |->
                   IF b \in Range(st.cap[c].cbs) THEN <<cmd>> ELSE @[b]]]

\* audio_capture_maybe_changed that notifies without comparing the flag
audio_capture_maybe_changed_always(st, c, enabled) ==
    audio_notify_capture([st EXCEPT !.cap[c].enabled = enabled], c,
        IF enabled = 1 THEN AUD_CNOTIFY_ENABLE ELSE AUD_CNOTIFY_DISABLE)

audio_capture_maybe_changed(st, c, enabled) ==
    IF st.cap[c].enabled # enabled
    THEN audio_notify_capture([st EXCEPT !.cap[c].enabled = enabled], c,
             IF enabled = 1 THEN AUD_CNOTIFY_ENABLE ELSE AUD_CNOTIFY_DISABLE)
    ELSE st

\* audio_recalc_and_notify_capture that looks at the first tap only
audio_recalc_and_notify_capture_first(st, c) ==
    audio_capture_maybe_changed(st, c,
        IF st.cap[c].sws # <<>> /\ st.tap[Head(st.cap[c].sws)][c].active = 1
        THEN 1 ELSE 0)

audio_recalc_and_notify_capture(st, c) ==
    audio_capture_maybe_changed(st, c,
        IF \E h \in Range(st.cap[c].sws) : st.tap[h][c].active = 1
        THEN 1 ELSE 0)

\* audio_detach_capture: unlink the taps of hardware voice h, in list order
RECURSIVE DetachLoop(_, _, _)
DetachLoop(st, h, q) ==
    IF q = <<>> THEN st
    ELSE LET c == Head(q)
             was_active == st.tap[h][c].active
             st1 == CountChange(
                        [st EXCEPT !.cap[c].sws = Without(@, h),
                                   !.hw[h].caps = Without(@, c)],
                        ActiveTaps(st, c), c)
             st2 == IF was_active = 1
                    THEN audio_recalc_and_notify_capture(st1, c)
                    ELSE st1
         IN  DetachLoop(st2, h, Tail(q))

audio_detach_capture(st, h) == DetachLoop(st, h, st.hw[h].caps)

\* a tap that starts with a frame mixed when a voice of hardware voice h
\* has frames mixed
NewTap_inherits(st, h, c) ==
    LET m == IF \E w \in DOMAIN st.sw :
                    st.sw[w].open /\ st.sw[w].hw = h /\ st.sw[w].mixed > 0
             THEN 1 ELSE 0
    IN  [active |-> st.hw[h].enabled, empty |-> m = 0, mixed |-> m,
         ratio |-> Ratio(st.cap[c].freq, st.hw[h].freq),
         rate |-> st_rate_start(st.hw[h].freq, st.cap[c].freq),
         shift |-> st.hw[h].shift]

\* the tap audio_attach_capture creates for hardware voice h on sink c
NewTap(st, h, c) ==
    [active |-> st.hw[h].enabled, empty |-> TRUE, mixed |-> 0,
     ratio |-> Ratio(st.cap[c].freq, st.hw[h].freq),
     rate |-> st_rate_start(st.hw[h].freq, st.cap[c].freq),
     shift |-> st.hw[h].shift]

RECURSIVE AttachLoop(_, _, _)
AttachLoop(st, h, q) ==
    IF q = <<>> THEN st
    ELSE LET c == Head(q)
             before == ActiveTaps(st, c)
             st1 == CountChange(
                        [st EXCEPT !.tap[h][c] = NewTap(st, h, c),
                                   !.cap[c].sws = <<h>> \o @,
                                   !.hw[h].caps = <<c>> \o @],
                        before, c)
             st2 == IF st1.tap[h][c].active = 1
                    THEN audio_capture_maybe_changed(st1, c, 1)
                    ELSE st1
         IN  AttachLoop(st2, h, Tail(q))

audio_attach_capture(st, h) ==
    AttachLoop(audio_detach_capture(st, h), h, st.caplist)

\* audio_attach_capture when the k-th turn of its loop over the sinks fails
\* (audio_calloc or st_rate_start returns NULL; both exits leave the lists
\* alike): the state it leaves and the value it returns; k = 0: no failure
RECURSIVE AttachLoopFail(_, _, _, _)
AttachLoopFail(st, h, q, k) ==
    IF q = <<>> THEN [st |-> st, ret |-> 0]
    ELSE IF k = 1 THEN [st |-> st, ret |-> -1]
    ELSE LET c == Head(q)
             before == ActiveTaps(st, c)
             st1 == CountChange(
                        [st EXCEPT !.tap[h][c] = NewTap(st, h, c),
                                   !.cap[c].sws = <<h>> \o @,
                                   !.hw[h].caps = <<c>> \o @],
                        before, c)
             st2 == IF st1.tap[h][c].active = 1
                    THEN audio_capture_maybe_changed(st1, c, 1)
                    ELSE st1
         IN  AttachLoopFail(st2, h, Tail(q), k - 1)

audio_attach_capture_fail(st, h, k) ==
    AttachLoopFail(audio_detach_capture(st, h), h, st.caplist, k)

\* what is kept of a call of audio_attach_capture on hardware voice h that
\* took the engine from state `pre` to state `post` and returned ret
AttachReport(pre, post, h, ret) ==
    [h |-> h, ret |-> ret,
     caps |-> post.hw[h].caps,
     sinks |-> {c \in CAP : h \in Range(post.cap[c].sws)},
     enabled_before |-> [c \in CAP |-> pre.cap[c].enabled],
     enabled_after |-> [c \in CAP |-> post.cap[c].enabled],
     notes_before |-> pre.notes,
     notes_after |-> post.notes]

\* the loop of AUD_add_capture over the hardware voices when the attach to
\* hardware voice hf fails in its k-th turn: the return value is not looked
\* at and the loop goes on
RECURSIVE AttachAllFail(_, _, _, _, _)
AttachAllFail(st, q, hf, k, report) ==
    IF q = <<>> THEN [st |-> st, report |-> report]
    ELSE LET h == Head(q)
             r == audio_attach_capture_fail(st, h, IF h = hf THEN k ELSE 0)
         IN  AttachAllFail(r.st, Tail(q), hf, k,
                           IF h = hf THEN AttachReport(st, r.st, h, r.ret)
                           ELSE report)

\* AUD_add_capture for settings that select a sink c not registered yet
AUD_add_capture_fail(st, c, cb, hf, k) ==
    AttachAllFail([st EXCEPT !.cap[c].enabled = 0,
                             !.cap[c].pos = 0,
                             !.cap[c].sws = <<>>,
                             !.cap[c].cbs = <<cb>>,
                             !.caplist = <<c>> \o @],
                  st.hwlist, hf, k, <<>>)

\* AUD_add_capture, after the settings were validated: c is the sink the
\* settings select, cb the opaque value of the callback
RECURSIVE AttachAll(_, _)
AttachAll(st, q) ==
    IF q = <<>> THEN st
    ELSE AttachAll(audio_attach_capture(st, Head(q)), Tail(q))

AUD_add_capture(st, c, cb) ==
    IF c \in Range(st.caplist)
    THEN [st EXCEPT !.cap[c].cbs = <<cb>> \o @]
    ELSE AttachAll([st EXCEPT !.cap[c].enabled = 0,
                              !.cap[c].pos = 0,
                              !.cap[c].sws = <<>>,
                              !.cap[c].cbs = <<cb>>,
                              !.caplist = <<c>> \o @],
                   st.hwlist)

\* the sample formats of audsettings
Formats == {"U8", "S8", "U16", "S16", "U32", "S32"}

\* audio_validate_settings that takes any channel count
audio_validate_settings_any_channels(as) ==
    LET invalid1 == FALSE
        invalid2 == invalid1 \/ (as.endianness # 0 /\ as.endianness # 1)
        invalid3 == IF as.fmt \in Formats THEN invalid2 ELSE TRUE
        invalid4 == invalid3 \/ as.freq <= 0
    IN  IF invalid4 THEN -1 ELSE 0

\* audio_validate_settings on as = [nchannels, endianness, fmt, freq]
audio_validate_settings(as) ==
    LET invalid1 == as.nchannels # 1 /\ as.nchannels # 2
        invalid2 == invalid1 \/ (as.endianness # 0 /\ as.endianness # 1)
        invalid3 == IF as.fmt \in Formats THEN invalid2 ELSE TRUE
        invalid4 == invalid3 \/ as.freq <= 0
    IN  IF invalid4 THEN -1 ELSE 0

\* audio_pcm_capture_find_specific: a sink is found by its settings; the
\* sinks of the model take mono S16 frames at InfoFreq and differ in
\* endianness
audio_pcm_capture_find_specific(as) == 1 + as.endianness

\* AUD_add_capture with its settings (an AudioState is given and its mixing
\* engine is on): the state after it and the sink it returns, 0 for NULL
AUD_add_capture_as(st, as, cb) ==
    IF audio_validate_settings(as) # 0 THEN [st |-> st, ret |-> 0]
    ELSE LET c == audio_pcm_capture_find_specific(as)
         IN  [st |-> AUD_add_capture(st, c, cb), ret |-> c]

\* AUD_del_capture
RECURSIVE DelTaps(_, _, _)
DelTaps(st, c, q) ==
    IF q = <<>> THEN st
    ELSE DelTaps(CountChange(
                     [st EXCEPT !.cap[c].sws = Without(@, Head(q)),
                                !.hw[Head(q)].caps = Without(@, c)],
                     ActiveTaps(st, c), c),
                 c, Tail(q))

\* AUD_del_capture that takes the sink of the last callback off the sink
\* list and leaves its taps where they are
AUD_del_capture_keeps_taps(st, c, cb) ==
    IF cb \notin Range(st.cap[c].cbs) THEN st
    ELSE LET st1 == [st EXCEPT !.cap[c].cbs = Without(@, cb),
                               !.destroyed = Append(@, <<c, cb>>),
                               !.lastnote[c][cb] = <<>>]
         IN  IF st1.cap[c].cbs # <<>> THEN st1
             ELSE [st1 EXCEPT !.caplist = Without(@, c),
                              !.cap[c].enabled = 0]

AUD_del_capture(st, c, cb) ==
    IF cb \notin Range(st.cap[c].cbs) THEN st
    ELSE LET st1 == [st EXCEPT !.cap[c].cbs = Without(@, cb),
                               !.destroyed = Append(@, <<c, cb>>),
                               !.lastnote[c][cb] = <<>>]
         IN  IF st1.cap[c].cbs # <<>> THEN st1
             ELSE LET st2 == DelTaps(st1, c, st1.cap[c].sws)
                  IN  [st2 EXCEPT !.caplist = Without(@, c),
                                  !.cap[c].enabled = 0]

(* ------------------------- playback control --------------------------- *)
\* the records of the voices in a list
Voices(st, h) == [i \in 1..Len(st.hw[h].sws) |-> st.sw[st.hw[h].sws[i]]]
Taps(st, c) == [i \in 1..Len(st.cap[c].sws) |-> st.tap[st.cap[c].sws[i]][c]]

\* the loop of AUD_set_active_out over hw->cap_head
RECURSIVE ActiveTapsLoop(_, _, _)
ActiveTapsLoop(st, h, q) ==
    IF q = <<>> THEN st
    ELSE LET st1 == SetTapActive(st, h, Head(q), st.hw[h].enabled)
             st2 == IF st.hw[h].enabled = 1
                    THEN audio_capture_maybe_changed(st1, Head(q), 1)
                    ELSE st1
         IN  ActiveTapsLoop(st2, h, Tail(q))

\* AUD_set_active_out that stops the hardware voice at once when its last
\* active voice is switched off
AUD_set_active_out_immediate(st, w, on) ==
    LET h == st.sw[w].hw
        nb_active == Cardinality({x \in Range(st.hw[h].sws) :
                                     st.sw[x].active # 0})
        st1 == IF on = 1
               THEN IF st.hw[h].enabled = 0
                    THEN [st EXCEPT !.hw[h].pending_disable = 0,
                                    !.hw[h].enabled = 1,
                                    !.ctl = IF st.vm_running
                                            THEN Append(@, <<h, VOICE_ENABLE>>)
                                            ELSE @]
                    ELSE [st EXCEPT !.hw[h].pending_disable = 0]
               ELSE IF st.hw[h].enabled = 1 /\ nb_active = 1
                    THEN [st EXCEPT !.hw[h].enabled = 0,
                                    !.ctl = Append(@, <<h, VOICE_DISABLE>>)]
                    ELSE st
        st2 == ActiveTapsLoop(st1, h, st1.hw[h].caps)
    IN  IF st.sw[w].active # on
        THEN [st2 EXCEPT !.sw[w].active = on]
        ELSE st

\* AUD_set_active_out that clears pending_disable only when it enables the
\* hardware voice
AUD_set_active_out_keeps_pending(st, w, on) ==
    LET h == st.sw[w].hw
        nb_active == Cardinality({x \in Range(st.hw[h].sws) :
                                     st.sw[x].active # 0})
        st1 == IF on = 1
               THEN IF st.hw[h].enabled = 0
                    THEN [st EXCEPT !.hw[h].pending_disable = 0,
                                    !.hw[h].enabled = 1,
                                    !.ctl = IF st.vm_running
                                            THEN Append(@, <<h, VOICE_ENABLE>>)
                                            ELSE @]
                    ELSE st
               ELSE IF st.hw[h].enabled = 1
                    THEN [st EXCEPT !.hw[h].pending_disable =
                                        IF nb_active = 1 THEN 1 ELSE 0]
                    ELSE st
        st2 == ActiveTapsLoop(st1, h, st1.hw[h].caps)
    IN  IF st.sw[w].active # on
        THEN [st2 EXCEPT !.sw[w].active = on]
        ELSE st

\* AUD_set_active_out that sets pending_disable whenever a voice of an
\* enabled hardware voice is switched off
AUD_set_active_out_pending_always(st, w, on) ==
    LET h == st.sw[w].hw
        st1 == IF on = 1
               THEN IF st.hw[h].enabled = 0
                    THEN [st EXCEPT !.hw[h].pending_disable = 0,
                                    !.hw[h].enabled = 1,
                                    !.ctl = IF st.vm_running
                                            THEN Append(@, <<h, VOICE_ENABLE>>)
                                            ELSE @]
                    ELSE [st EXCEPT !.hw[h].pending_disable = 0]
               ELSE IF st.hw[h].enabled = 1
                    THEN [st EXCEPT !.hw[h].pending_disable = 1]
                    ELSE st
        st2 == ActiveTapsLoop(st1, h, st1.hw[h].caps)
    IN  IF st.sw[w].active # on
        THEN [st2 EXCEPT !.sw[w].active = on]
        ELSE st

\* The timer of the engine is kept, where a state has the field ts, as
\* whether it is armed; poll_mode[h] is the poll_mode of playback hardware
\* voice h, poll_mode[0] that of the capture hardware voice.
\* audio_is_timer_needed that looks at the playback voices only
audio_is_timer_needed_playback(st) ==
    \E h \in Range(st.hwlist) :
        st.hw[h].enabled = 1 /\ st.poll_mode[h] = 0

audio_is_timer_needed(st) ==
    \/ \E h \in Range(st.hwlist) :
           st.hw[h].enabled = 1 /\ st.poll_mode[h] = 0
    \/ st.hwin.enabled = 1 /\ st.poll_mode[0] = 0

\* audio_reset_timer: timer_mod or timer_del
audio_reset_timer(st) ==
    IF "ts" \in DOMAIN st
    THEN [st EXCEPT !.ts = audio_is_timer_needed(st)]
    ELSE st

AUD_set_active_out(st, w, on) ==
    LET h == st.sw[w].hw
        nb_active == Cardinality({x \in Range(st.hw[h].sws) :
                                     st.sw[x].active # 0})
        st1 == IF on = 1
               THEN IF st.hw[h].enabled = 0
                    THEN LET e == [st EXCEPT
                                      !.hw[h].pending_disable = 0,
                                      !.hw[h].enabled = 1,
                                      !.ctl = IF st.vm_running
                                              THEN Append(@, <<h, VOICE_ENABLE>>)
                                              ELSE @]
                         IN  IF st.vm_running THEN audio_reset_timer(e)
                             ELSE e
                    ELSE [st EXCEPT !.hw[h].pending_disable = 0]
               ELSE IF st.hw[h].enabled = 1
                    THEN [st EXCEPT !.hw[h].pending_disable =
                                        IF nb_active = 1 THEN 1 ELSE 0]
                    ELSE st
        st2 == ActiveTapsLoop(st1, h, st1.hw[h].caps)
    IN  IF st.sw[w].active # on
        THEN [st2 EXCEPT !.sw[w].active = on]
        ELSE st

\* The frames of a mix buffer are kept, where a state has the field buf, as
\* the set of voices whose samples were added to the frame since it was
\* last zeroed: {} is a zero frame.
\* st_rate_flow_mix adds the samples of voice w to the frames at `slots`
MixInto(buf, w, slots) ==
    [i \in DOMAIN buf |->
        IF \E k \in 1..Len(slots) : slots[k] = i THEN buf[i] \cup {w}
        ELSE buf[i]]

\* mixeng_clear(buf + from, n)
mixeng_clear(buf, from, n) ==
    [i \in DOMAIN buf |-> IF from <= i /\ i < from + n THEN {} ELSE buf[i]]

\* AUD_write with the mixing engine on
AUD_write(st, w, size) ==
    LET h == st.sw[w].hw
    IN  IF st.hw[h].enabled = 0 THEN [st |-> st, ret |-> 0]
        ELSE LET r == audio_pcm_sw_write(st.sw[w], st.hw[h].samples,
                                         st.hw[h].pos, size)
                 st1 == [st EXCEPT !.sw[w] = r.v]
             IN  [st |-> IF "buf" \in DOMAIN st
                         THEN [st1 EXCEPT !.buf[h] = MixInto(@, w, r.slots)]
                         ELSE st1,
                  ret |-> r.ret]

\* audio_vm_change_state_handler, playback side
RECURSIVE CtlAll(_, _, _)
CtlAll(st, q, op) ==
    IF q = <<>> THEN st
    ELSE CtlAll(IF st.hw[Head(q)].enabled = 1
                THEN [st EXCEPT !.ctl = Append(@, <<Head(q), op>>)]
                ELSE st,
                Tail(q), op)

audio_vm_change_state_handler(st, running) ==
    audio_reset_timer(
        CtlAll([st EXCEPT !.vm_running = running], st.hwlist,
               IF running THEN VOICE_ENABLE ELSE VOICE_DISABLE))

(* ------------------------ hard voice (playback) ----------------------- *)
\* audio_pcm_hw_find_min_out over the voice records vs of a list
\* audio_pcm_hw_find_min_out that leaves out the voices that are active but
\* have nothing mixed
RECURSIVE FindMinOut_nonempty(_, _, _)
FindMinOut_nonempty(vs, m, nb_live) ==
    IF vs = <<>> THEN [m |-> m, nb_live |-> nb_live]
    ELSE IF ~Head(vs).empty
         THEN FindMinOut_nonempty(Tail(vs), audio_MIN(m, Head(vs).mixed),
                                  nb_live + 1)
         ELSE FindMinOut_nonempty(Tail(vs), m, nb_live)

\* audio_pcm_hw_find_min_out that counts every voice as live
RECURSIVE FindMinOut_counts_all(_, _, _)
FindMinOut_counts_all(vs, m, nb_live) ==
    IF vs = <<>> THEN [m |-> m, nb_live |-> nb_live]
    ELSE IF Head(vs).active # 0 \/ ~Head(vs).empty
         THEN FindMinOut_counts_all(Tail(vs), audio_MIN(m, Head(vs).mixed),
                                    nb_live + 1)
         ELSE FindMinOut_counts_all(Tail(vs), m, nb_live + 1)

RECURSIVE FindMinOut(_, _, _)
FindMinOut(vs, m, nb_live) ==
    IF vs = <<>> THEN [m |-> m, nb_live |-> nb_live]
    ELSE IF Head(vs).active # 0 \/ ~Head(vs).empty
         THEN FindMinOut(Tail(vs), audio_MIN(m, Head(vs).mixed), nb_live + 1)
         ELSE FindMinOut(Tail(vs), m, nb_live)

audio_pcm_hw_find_min_out(vs) == FindMinOut(vs, SIZE_MAX, 0)

audio_pcm_hw_get_live_out(vs, samples) ==
    LET f == audio_pcm_hw_find_min_out(vs)
    IN  [nb_live |-> f.nb_live,
         live |-> IF f.nb_live # 0
                  THEN IF f.m > samples THEN 0 ELSE f.m
                  ELSE 0]

\* audio_pcm_hw_run_out: io is what the backend answers in this pass, one
\* record per get_buffer_out/put_buffer_out pair: the bytes of the buffer
\* it hands out and the bytes it accepts of what it is offered; it hands
\* out an empty buffer afterwards.  `puts` lists the calls of
\* put_buffer_out, each <<frames offered, frames accepted>>
\* the loop of audio_pcm_hw_run_out that goes on after a short put and
\* stops only when nothing was accepted
RECURSIVE HwRunOut_no_break(_, _, _, _, _, _, _, _)
HwRunOut_no_break(samples, shift, pos, live, io, clipped, offered, puts) ==
    IF live = 0
    THEN [pos |-> pos, clipped |-> clipped, offered |-> offered,
          puts |-> puts]
    ELSE LET size == IF io = <<>> THEN 0 ELSE Head(io).size
             decr == audio_MIN(Shr(size, shift), live)
             put == IF io = <<>> THEN 0
                    ELSE audio_MIN(Head(io).put, Shl(decr, shift))
             proc == Shr(put, shift)
             pos1 == (pos + proc) % samples
         IN  IF proc = 0
             THEN [pos |-> pos1, clipped |-> clipped + proc,
                   offered |-> offered + decr,
                   puts |-> Append(puts, <<decr, proc>>)]
             ELSE HwRunOut_no_break(samples, shift, pos1, live - proc,
                                    Tail(io), clipped + proc, offered + decr,
                                    Append(puts, <<decr, proc>>))

\* the loop of audio_pcm_hw_run_out that advances mix_buf.pos without
\* wrapping it
RECURSIVE HwRunOut_nowrap(_, _, _, _, _, _, _, _)
HwRunOut_nowrap(samples, shift, pos, live, io, clipped, offered, puts) ==
    IF live = 0
    THEN [pos |-> pos, clipped |-> clipped, offered |-> offered,
          puts |-> puts]
    ELSE LET size == IF io = <<>> THEN 0 ELSE Head(io).size
             decr == audio_MIN(Shr(size, shift), live)
             put == IF io = <<>> THEN 0
                    ELSE audio_MIN(Head(io).put, Shl(decr, shift))
             proc == Shr(put, shift)
             pos1 == pos + proc
         IN  IF proc = 0 \/ proc < decr
             THEN [pos |-> pos1, clipped |-> clipped + proc,
                   offered |-> offered + decr,
                   puts |-> Append(puts, <<decr, proc>>)]
             ELSE HwRunOut_nowrap(samples, shift, pos1, live - proc, Tail(io),
                                  clipped + proc, offered + decr,
                                  Append(puts, <<decr, proc>>))

RECURSIVE HwRunOut(_, _, _, _, _, _, _, _)
HwRunOut(samples, shift, pos, live, io, clipped, offered, puts) ==
    IF live = 0
    THEN [pos |-> pos, clipped |-> clipped, offered |-> offered,
          puts |-> puts]
    ELSE LET size == IF io = <<>> THEN 0 ELSE Head(io).size
             decr == audio_MIN(Shr(size, shift), live)
             put == IF io = <<>> THEN 0
                    ELSE audio_MIN(Head(io).put, Shl(decr, shift))
             proc == Shr(put, shift)
             pos1 == (pos + proc) % samples
         IN  IF proc = 0 \/ proc < decr
             THEN [pos |-> pos1, clipped |-> clipped + proc,
                   offered |-> offered + decr,
                   puts |-> Append(puts, <<decr, proc>>)]
             ELSE HwRunOut(samples, shift, pos1, live - proc, Tail(io),
                           clipped + proc, offered + decr,
                           Append(puts, <<decr, proc>>))

audio_pcm_hw_run_out(samples, shift, pos, live, io) ==
    HwRunOut(samples, shift, pos, live, io, 0, 0, <<>>)

\* audio_capture_mix_and_clear: mix `samples` frames of hardware voice h
\* from rpos on into every tap of h
RECURSIVE MixTap(_, _, _, _, _)
MixTap(st, h, c, rpos2, n) ==
    IF n = 0 THEN st
    ELSE LET till_end_of_hw == st.hw[h].samples - rpos2
             to_write == audio_MIN(till_end_of_hw, n)
             bytes == Shl(to_write, st.hw[h].shift)
             r == audio_pcm_sw_write(st.tap[h][c], st.cap[c].samples,
                                     st.cap[c].pos, bytes)
             st1 == [st EXCEPT !.tap[h][c] = r.v]
         IN  IF r.ret # bytes THEN st1
             ELSE MixTap(st1, h, c, (rpos2 + to_write) % st.hw[h].samples,
                         n - to_write)

RECURSIVE MixTaps(_, _, _, _, _)
MixTaps(st, h, q, rpos, samples) ==
    IF q = <<>> THEN st
    ELSE MixTaps(MixTap(st, h, Head(q), rpos, samples), h, Tail(q),
                 rpos, samples)

\* audio_capture_mix_and_clear: the taps of h and the zeroing of the frames
audio_capture_mix_and_clear(st, h, rpos, samples) ==
    LET st1 == IF st.hw[h].enabled = 1
               THEN MixTaps(st, h, st.hw[h].caps, rpos, samples)
               ELSE st
        n == audio_MIN(samples, st.hw[h].samples - rpos)
    IN  IF "buf" \in DOMAIN st
        THEN [st1 EXCEPT !.buf[h] = mixeng_clear(mixeng_clear(@, rpos, n),
                                                 0, samples - n)]
        ELSE st1

\* audio_run_out, the branch that disables a drained hardware voice
RECURSIVE DisableTaps(_, _, _)
DisableTaps(st, h, q) ==
    IF q = <<>> THEN st
    ELSE DisableTaps(audio_recalc_and_notify_capture(
                         SetTapActive(st, h, Head(q), 0), Head(q)),
                     h, Tail(q))

RunOutDisable(st, h) ==
    DisableTaps([st EXCEPT !.hw[h].enabled = 0,
                           !.hw[h].pending_disable = 0,
                           !.ctl = Append(@, <<h, VOICE_DISABLE>>)],
                h, st.hw[h].caps)

\* the per-voice loop body without the clamp of `played`
RunOutVoice_noclamp(st, w, played) ==
    LET v == st.sw[w]
        h == v.hw
    IN  IF v.active = 0 /\ v.empty
        THEN [st |-> st, played |-> played, cleanup |-> FALSE, free |-> 0,
              bug |-> FALSE]
        ELSE LET mixed == USub(v.mixed, played)
                 v1 == [v EXCEPT !.mixed = mixed,
                                 !.empty = IF mixed = 0 THEN TRUE ELSE @]
             IN  [st |-> [st EXCEPT !.sw[w] = v1],
                  played |-> played,
                  cleanup |-> mixed = 0 /\ v.active = 0 /\ ~v.cb,
                  free |-> IF v.active # 0
                           THEN audio_get_free(v1, st.hw[h].samples)
                           ELSE 0,
                  bug |-> FALSE]

\* the per-voice loop body taking the free space before the decrement
RunOutVoice_stale_free(st, w, played) ==
    LET v == st.sw[w]
        h == v.hw
    IN  IF v.active = 0 /\ v.empty
        THEN [st |-> st, played |-> played, cleanup |-> FALSE, free |-> 0,
              bug |-> FALSE]
        ELSE LET bug == played > v.mixed
                 played1 == IF bug THEN v.mixed ELSE played
                 mixed == USub(v.mixed, played1)
                 v1 == [v EXCEPT !.mixed = mixed,
                                 !.empty = IF mixed = 0 THEN TRUE ELSE @]
             IN  [st |-> [st EXCEPT !.sw[w] = v1],
                  played |-> played1,
                  cleanup |-> mixed = 0 /\ v.active = 0 /\ ~v.cb,
                  free |-> IF v.active # 0
                           THEN audio_get_free(v, st.hw[h].samples)
                           ELSE 0,
                  bug |-> bug]

\* audio_run_out, the body of the per-voice loop for voice w: the state and
\* the value of `played` after it, whether the voice asks for cleanup, and
\* the free space its callback is called with (0: no callback)
RunOutVoice(st, w, played) ==
    LET v == st.sw[w]
        h == v.hw
    IN  IF v.active = 0 /\ v.empty
        THEN [st |-> st, played |-> played, cleanup |-> FALSE, free |-> 0,
              bug |-> FALSE]
        ELSE LET bug == played > v.mixed
                 played1 == IF bug THEN v.mixed ELSE played
                 mixed == USub(v.mixed, played1)
                 v1 == [v EXCEPT !.mixed = mixed,
                                 !.empty = IF mixed = 0 THEN TRUE ELSE @]
             IN  [st |-> [st EXCEPT !.sw[w] = v1],
                  played |-> played1,
                  cleanup |-> mixed = 0 /\ v.active = 0 /\ ~v.cb,
                  free |-> IF v.active # 0
                           THEN audio_get_free(v1, st.hw[h].samples)
                           ELSE 0,
                  bug |-> bug]

\* audio_close_out as far as the lists go: the voice leaves its list
audio_close_out(st, w) ==
    [st EXCEPT !.hw[st.sw[w].hw].sws = Without(@, w), !.sw[w].open = FALSE]

RECURSIVE CleanupLoop(_, _)
CleanupLoop(st, q) ==
    IF q = <<>> THEN st
    ELSE CleanupLoop(IF st.sw[Head(q)].active = 0 /\ ~st.sw[Head(q)].cb
                     THEN audio_close_out(st, Head(q))
                     ELSE st,
                     Tail(q))

(* --------------------------- capture fan-out -------------------------- *)
\* the chunk loop of audio_run_capture taking all live frames as one chunk
RECURSIVE CaptureChunks_nowrap(_, _, _, _, _, _)
CaptureChunks_nowrap(samples, shift, rpos, live, cbs, chunks) ==
    IF live = 0 THEN [rpos |-> rpos, chunks |-> chunks]
    ELSE LET to_capture == live
         IN  CaptureChunks_nowrap(
                 samples, shift, (rpos + to_capture) % samples,
                 live - to_capture, cbs,
                 chunks \o [i \in 1..Len(cbs) |->
                                <<cbs[i], Shl(to_capture, shift)>>])

\* the chunk loop of audio_run_capture: the calls of the capture callbacks
\* in order, each <<callback, bytes>>, and the read position after them
RECURSIVE CaptureChunks(_, _, _, _, _, _)
CaptureChunks(samples, shift, rpos, live, cbs, chunks) ==
    IF live = 0 THEN [rpos |-> rpos, chunks |-> chunks]
    ELSE LET left == samples - rpos
             to_capture == audio_MIN(live, left)
         IN  CaptureChunks(samples, shift, (rpos + to_capture) % samples,
                           live - to_capture, cbs,
                           chunks \o [i \in 1..Len(cbs) |->
                                          <<cbs[i], Shl(to_capture, shift)>>])

\* the decrement loop of audio_run_capture over the taps of sink c
RECURSIVE CaptureDecr(_, _, _, _)
CaptureDecr(st, c, q, captured) ==
    IF q = <<>> THEN st
    ELSE LET v == st.tap[Head(q)][c]
         IN  IF v.active = 0 /\ v.empty
             THEN CaptureDecr(st, c, Tail(q), captured)
             ELSE LET captured1 == IF captured > v.mixed THEN v.mixed
                                   ELSE captured
                      mixed == USub(v.mixed, captured1)
                  IN  CaptureDecr([st EXCEPT !.tap[Head(q)][c].mixed = mixed,
                                             !.tap[Head(q)][c].empty =
                                                 (mixed = 0)],
                                  c, Tail(q), captured1)

RunCaptureSink(st, c) ==
    LET live == audio_pcm_hw_get_live_out(Taps(st, c), st.cap[c].samples).live
        ch == CaptureChunks(st.cap[c].samples, st.cap[c].shift, st.cap[c].pos,
                            live, st.cap[c].cbs, <<>>)
        st1 == [st EXCEPT !.cap[c].pos = ch.rpos,
                          !.captured[c] = ch.chunks]
    IN  CaptureDecr(st1, c, st1.cap[c].sws, live)

RECURSIVE RunCaptureLoop(_, _)
RunCaptureLoop(st, q) ==
    IF q = <<>> THEN st
    ELSE RunCaptureLoop(RunCaptureSink(st, Head(q)), Tail(q))

audio_run_capture(st) == RunCaptureLoop(st, st.caplist)

(* ------------------------------- state -------------------------------- *)
NoRate == st_rate_start(InfoFreq, InfoFreq)

NewVoice(h) ==
    [hw |-> h, active |-> 0, empty |-> TRUE, mixed |-> 0,
     ratio |-> Ratio(InfoFreq, InfoFreq), rate |-> NoRate, shift |-> InfoShift,
     cb |-> TRUE, open |-> TRUE]

NoTap ==
    [active |-> 0, empty |-> TRUE, mixed |-> 0,
     ratio |-> Ratio(InfoFreq, InfoFreq), rate |-> NoRate, shift |-> InfoShift]

\* the engine with its hardware voices and software voices opened, none of
\* them active yet and no capture sink; hw_of attaches the voices
InitState(hw_of) ==
    [vm_running |-> TRUE,
     hwlist |-> <<1, 2>>,
     hw |-> [h \in HW |->
                [enabled |-> 0, pending_disable |-> 0, pos |-> 0,
                 samples |-> BufSize, shift |-> InfoShift, freq |-> InfoFreq,
                 sws |-> SelectSeq(<<1, 2, 3>>, LAMBDA w : hw_of[w] = h),
                 caps |-> <<>>]],
     sw |-> [w \in SW |-> NewVoice(hw_of[w])],
     caplist |-> <<>>,
     cap |-> [c \in CAP |->
                 [enabled |-> 0, pos |-> 0, samples |-> BufSize,
                  shift |-> InfoShift, freq |-> InfoFreq,
                  cbs |-> <<>>, sws |-> <<>>]],
     tap |-> [h \in HW |-> [c \in CAP |-> NoTap]],
     notes |-> <<>>, trans |-> <<>>, destroyed |-> <<>>, ctl |-> <<>>,
     lastnote |-> [c \in CAP |-> [b \in CB |-> <<>>]],
     captured |-> [c \in CAP |-> <<>>]]

\* the records of what the latest step called are emptied when a step starts
\* the enable/disable command the backend of hardware voice h received
\* last: cmd, the one it had received before the step (0: none), then the
\* calls ctl of the step, <<h, command>> for ctl_out and <<h, "enable_out",
\* enable>> for enable_out
RECURSIVE LatestCmd(_, _, _)
LatestCmd(cmd, ctl, h) ==
    IF ctl = <<>> THEN cmd
    ELSE LatestCmd(IF Head(ctl)[1] # h THEN cmd
                   ELSE IF Len(Head(ctl)) = 2 THEN Head(ctl)[2]
                   ELSE IF Head(ctl)[3] = 1 THEN VOICE_ENABLE
                   ELSE VOICE_DISABLE,
                   Tail(ctl), h)

Fresh(st) ==
    LET st0 == IF "cmd" \in DOMAIN st
               THEN [st EXCEPT !.cmd = [h \in DOMAIN st.cmd |->
                                          LatestCmd(st.cmd[h], st.ctl, h)]]
               ELSE st
    IN  [st0 EXCEPT !.notes = <<>>, !.trans = <<>>, !.destroyed = <<>>,
                    !.ctl = <<>>, !.captured = [c \in CAP |-> <<>>]]

Idle == [pc |-> "idle", hwq |-> <<>>, h |-> 0, dec |-> FALSE, swq |-> <<>>,
         played |-> 0, drained |-> 0, cleanup |-> FALSE, w |-> 0,
         free |-> 0, min |-> 0, captured |-> 0]

NoObs == [op |-> "init", w |-> 0, h |-> 0, on |-> 0, size |-> 0, ret |-> 0,
          live |-> 0, nb_live |-> 0, played |-> 0, offered |-> 0,
          drained |-> 0, bug |-> FALSE, free |-> 0, captured |-> 0,
          slots |-> <<>>, consumed |-> 0, fail |-> <<>>, as |-> <<>>,
          puts |-> <<>>, emul |-> <<>>,
          pre_enabled |-> 0, pre_pending |-> 0, pre_active |-> 0]

WriteSizes == 0..Shl(BufSize, InfoShift)

\* what a backend may answer to one get_buffer_out/put_buffer_out pair
Chunks == {ch \in [size : {Shl(n, InfoShift) : n \in 0..BufSize},
                   put : {Shl(n, InfoShift) : n \in 0..BufSize}] :
              ch.put <= ch.size}

RECURSIVE SeqsUpTo(_, _)
SeqsUpTo(S, n) ==
    IF n = 0 THEN {<<>>}
    ELSE LET shorter == SeqsUpTo(S, n - 1)
         IN  shorter \cup {Append(q, x) : q \in shorter, x \in S}

BackendAnswers == SeqsUpTo(Chunks, MaxChunks)

(* ------------------------------ actions ------------------------------- *)
\* a device calls AUD_write
DevWrite(w, size) ==
    /\ run.pc = "idle"
    /\ s.sw[w].open
    /\ LET r == AUD_write(Fresh(s), w, size)
       IN  /\ s' = r.st
           /\ obs' = [NoObs EXCEPT !.op = "AUD_write", !.w = w,
                                   !.h = s.sw[w].hw, !.size = size,
                                   !.ret = r.ret]
    /\ UNCHANGED run

\* a device calls AUD_set_active_out
DevSetActive(w, on) ==
    /\ run.pc = "idle"
    /\ s.sw[w].open
    /\ s' = AUD_set_active_out(Fresh(s), w, on)
    /\ obs' = [NoObs EXCEPT !.op = "AUD_set_active_out", !.w = w,
                            !.h = s.sw[w].hw, !.on = on,
                            !.pre_enabled = s.hw[s.sw[w].hw].enabled,
                            !.pre_pending = s.hw[s.sw[w].hw].pending_disable,
                            !.pre_active = s.sw[w].active]
    /\ UNCHANGED run

\* a capture consumer registers a callback with settings that select sink c
AddCapture(c, cb) ==
    /\ run.pc = "idle"
    /\ cb \notin Range(s.cap[c].cbs)
    /\ Len(s.cap[c].cbs) < MaxCallbacks
    /\ s' = AUD_add_capture(Fresh(s), c, cb)
    /\ obs' = [NoObs EXCEPT !.op = "AUD_add_capture", !.h = c, !.w = cb]
    /\ UNCHANGED run

\* a capture consumer registers a callback on a new sink c and the attach to
\* hardware voice hf fails in the k-th turn of its loop
AddCaptureFail(c, cb, hf, k) ==
    /\ run.pc = "idle"
    /\ c \notin Range(s.caplist)
    /\ hf \in Range(s.hwlist)
    /\ k \in 1..(Len(s.caplist) + 1)
    /\ LET r == AUD_add_capture_fail(Fresh(s), c, cb, hf, k)
       IN  /\ s' = r.st
           /\ obs' = [NoObs EXCEPT !.op = "AUD_add_capture", !.h = c,
                                   !.w = cb, !.fail = r.report]
    /\ UNCHANGED run

\* the settings capture consumers come with: good ones and ones with a bad
\* channel count, endianness, format or frequency
Settings ==
    [nchannels : {1, 3}, endianness : {0, 1, 2}, fmt : {"S16", "invalid"},
     freq : {0, InfoFreq}]

\* a capture consumer registers a callback with settings as
AddCaptureAs(as, cb) ==
    /\ run.pc = "idle"
    /\ audio_validate_settings(as) = 0 =>
           LET c == audio_pcm_capture_find_specific(as)
           IN  cb \notin Range(s.cap[c].cbs) /\ Len(s.cap[c].cbs) < MaxCallbacks
    /\ LET r == AUD_add_capture_as(Fresh(s), as, cb)
       IN  /\ s' = r.st
           /\ obs' = [NoObs EXCEPT !.op = "AUD_add_capture", !.h = r.ret,
                                   !.w = cb, !.ret = r.ret, !.as = as]
    /\ UNCHANGED run

DelCapture(c, cb) ==
    /\ run.pc = "idle"
    /\ c \in Range(s.caplist)
    /\ s' = AUD_del_capture(Fresh(s), c, cb)
    /\ obs' = [NoObs EXCEPT !.op = "AUD_del_capture", !.h = c, !.w = cb]
    /\ UNCHANGED run

\* the VM is stopped or resumed
VmChange(running) ==
    /\ run.pc = "idle"
    /\ s' = audio_vm_change_state_handler(Fresh(s), running)
    /\ obs' = [NoObs EXCEPT !.op = "vm_change_state",
                            !.on = IF running THEN 1 ELSE 0]
    /\ UNCHANGED run

\* audio_run is entered (timer): audio_run_out starts at the list head
AudioRun ==
    /\ run.pc = "idle"
    /\ run' = [Idle EXCEPT !.pc = "out", !.hwq = s.hwlist]
    /\ s' = Fresh(s)
    /\ obs' = [NoObs EXCEPT !.op = "audio_run"]

\* audio_pcm_hw_find_any_enabled_out: the rest of the list from the next
\* enabled hardware voice on
RECURSIVE FindEnabled(_, _)
FindEnabled(st, q) ==
    IF q = <<>> THEN <<>>
    ELSE IF st.hw[Head(q)].enabled = 1 THEN q
         ELSE FindEnabled(st, Tail(q))

\* audio_run_out reaches the next enabled hardware voice: up to the
\* per-voice loop
RunOutHw(io) ==
    /\ run.pc = "out"
    /\ FindEnabled(s, run.hwq) # <<>>
    /\ LET q == FindEnabled(s, run.hwq)
           h == Head(q)
           st == Fresh(s)
           l == audio_pcm_hw_get_live_out(Voices(st, h), st.hw[h].samples)
           o == [NoObs EXCEPT !.op = "run_out_hw", !.h = h, !.live = l.live,
                              !.nb_live = l.nb_live]
       IN  IF st.hw[h].pending_disable = 1 /\ l.nb_live = 0
           THEN /\ s' = RunOutDisable(st, h)
                /\ run' = [run EXCEPT !.hwq = Tail(q)]
                /\ obs' = [o EXCEPT !.op = "run_out_disable"]
                /\ io = <<>>
           ELSE IF l.live = 0
           THEN /\ s' = st
                /\ run' = [run EXCEPT !.pc = "sw", !.hwq = Tail(q), !.h = h,
                                      !.dec = FALSE, !.swq = st.hw[h].sws]
                /\ obs' = o
                /\ io = <<>>
           ELSE LET prev_rpos == st.hw[h].pos
                    r == audio_pcm_hw_run_out(st.hw[h].samples, st.hw[h].shift,
                                              prev_rpos, l.live, io)
                    st1 == [st EXCEPT !.hw[h].pos = r.pos]
                    st2 == IF r.clipped # 0
                           THEN audio_capture_mix_and_clear(st1, h, prev_rpos,
                                                            r.clipped)
                           ELSE st1
                IN  /\ s' = st2
                    /\ run' = [run EXCEPT !.pc = "sw", !.hwq = Tail(q),
                                          !.h = h, !.dec = TRUE,
                                          !.swq = st.hw[h].sws,
                                          !.played = r.clipped,
                                          !.drained = r.clipped,
                                          !.cleanup = FALSE]
                    /\ obs' = [o EXCEPT !.played = r.clipped,
                                        !.drained = r.clipped,
                                        !.offered = r.offered,
                                        !.puts = r.puts]

\* one turn of the per-voice loop of audio_run_out, up to the callback
RunOutSw ==
    /\ run.pc = "sw"
    /\ run.swq # <<>>
    /\ LET w == Head(run.swq)
           st == Fresh(s)
           r == IF run.dec THEN RunOutVoice(st, w, run.played)
                ELSE [st |-> st, played |-> run.played, cleanup |-> FALSE,
                      free |-> IF st.sw[w].active # 0
                               THEN audio_get_free(st.sw[w],
                                                   st.hw[run.h].samples)
                               ELSE 0,
                      bug |-> FALSE]
       IN  /\ s' = r.st
           /\ run' = [run EXCEPT !.pc = IF r.free > 0 THEN "cb" ELSE "sw",
                                 !.swq = Tail(run.swq),
                                 !.played = r.played,
                                 !.cleanup = run.cleanup \/ r.cleanup,
                                 !.w = w, !.free = r.free]
           /\ obs' = [NoObs EXCEPT !.op = IF run.dec THEN "run_out_sw"
                                          ELSE "run_out_free",
                                   !.w = w, !.h = run.h,
                                   !.played = r.played, !.bug = r.bug,
                                   !.ret = r.free]

\* the per-voice loop is over: the deferred cleanup pass
RunOutEnd ==
    /\ run.pc = "sw"
    /\ run.swq = <<>>
    /\ s' = IF run.dec /\ run.cleanup
            THEN CleanupLoop(Fresh(s), s.hw[run.h].sws)
            ELSE Fresh(s)
    /\ run' = [Idle EXCEPT !.pc = "out", !.hwq = run.hwq]
    /\ obs' = [NoObs EXCEPT !.op = "run_out_end", !.h = run.h]

\* inside the write-availability callback of voice run.w the device writes
CbWrite(size) ==
    /\ run.pc = "cb"
    /\ LET r == AUD_write(Fresh(s), run.w, size)
       IN  /\ s' = r.st
           /\ obs' = [NoObs EXCEPT !.op = "cb_AUD_write", !.w = run.w,
                                   !.h = run.h, !.size = size, !.ret = r.ret]
    /\ UNCHANGED run

\* ... or switches a voice of the same hardware voice on or off
CbSetActive(w, on) ==
    /\ run.pc = "cb"
    /\ s.sw[w].open
    /\ s.sw[w].hw = run.h
    /\ s' = AUD_set_active_out(Fresh(s), w, on)
    /\ obs' = [NoObs EXCEPT !.op = "cb_AUD_set_active_out", !.w = w,
                            !.h = run.h, !.on = on,
                            !.pre_enabled = s.hw[s.sw[w].hw].enabled,
                            !.pre_pending = s.hw[s.sw[w].hw].pending_disable,
                            !.pre_active = s.sw[w].active]
    /\ UNCHANGED run

\* the callback returns
CbReturn ==
    /\ run.pc = "cb"
    /\ run' = [run EXCEPT !.pc = "sw"]
    /\ s' = Fresh(s)
    /\ obs' = [NoObs EXCEPT !.op = "cb_return", !.w = run.w, !.h = run.h]

\* audio_run_out found no further enabled hardware voice: audio_run goes
\* on to audio_run_capture and returns
RunCapture ==
    /\ run.pc = "out"
    /\ FindEnabled(s, run.hwq) = <<>>
    /\ s' = audio_run_capture(Fresh(s))
    /\ run' = Idle
    /\ obs' = [NoObs EXCEPT !.op = "audio_run_capture"]

(* --------------------------- specifications --------------------------- *)
\* Spec: the data path.  Voices 1 and 2 on hardware voice 1 (voice 3 is
\* not open), with or without a capture sink registered before the voices
\* start; devices write and switch voices on and off, also from inside
\* their callbacks.
TwoVoices ==
    [InitState([w \in SW |-> 1])
        EXCEPT !.hw[1].sws = <<1, 2>>, !.sw[3].open = FALSE]

Init ==
    /\ s \in {TwoVoices, Fresh(AUD_add_capture(TwoVoices, 1, 1))}
    /\ run = Idle
    /\ obs = NoObs

Next ==
    \/ \E w \in SW, size \in WriteSizes : DevWrite(w, size)
    \/ \E w \in SW, on \in {0, 1} : DevSetActive(w, on)
    \/ AudioRun
    \/ \E io \in BackendAnswers : RunOutHw(io)
    \/ RunOutSw
    \/ RunOutEnd
    \/ \E size \in WriteSizes : CbWrite(size)
    \/ \E w \in SW, on \in {0, 1} : CbSetActive(w, on)
    \/ CbReturn
    \/ RunCapture

Spec == Init /\ [][Next]_vars

\* SpecThree: as Spec, with three voices on hardware voice 1 and no sink
InitThree ==
    /\ s = InitState([w \in SW |-> 1])
    /\ run = Idle
    /\ obs = NoObs

SpecThree == InitThree /\ [][Next]_vars

\* SpecMix: as Spec without a sink, with the frames of the mix buffers, all
\* zero at the start
MixState ==
    LET st == TwoVoices
    IN  [vm_running |-> st.vm_running, hwlist |-> st.hwlist,
         hw |-> st.hw, sw |-> st.sw, caplist |-> st.caplist,
         cap |-> st.cap, tap |-> st.tap, notes |-> st.notes,
         trans |-> st.trans, destroyed |-> st.destroyed, ctl |-> st.ctl,
         lastnote |-> st.lastnote, captured |-> st.captured,
         buf |-> [h \in HW |-> [i \in 0..(st.hw[h].samples - 1) |-> {}]]]

InitMix ==
    /\ s = MixState
    /\ run = Idle
    /\ obs = NoObs

SpecMix == InitMix /\ [][Next]_vars

\* SpecDrain: as Spec without a sink, with the timer calling audio_run
\* again and again, every pass and every callback coming to its end, and a
\* backend that takes at least one frame whenever it is offered frames.
\* The devices are under no obligation.
RunOutHwDrain(io) ==
    /\ RunOutHw(io)
    /\ obs'.live > 0 => obs'.drained > 0

InitDrain ==
    /\ s = TwoVoices
    /\ run = Idle
    /\ obs = NoObs

NextDrain ==
    \/ \E w \in SW, size \in WriteSizes : DevWrite(w, size)
    \/ \E w \in SW, on \in {0, 1} : DevSetActive(w, on)
    \/ AudioRun
    \/ \E io \in BackendAnswers : RunOutHwDrain(io)
    \/ RunOutSw
    \/ RunOutEnd
    \/ \E size \in WriteSizes : CbWrite(size)
    \/ \E w \in SW, on \in {0, 1} : CbSetActive(w, on)
    \/ CbReturn
    \/ RunCapture

SpecDrain ==
    /\ InitDrain
    /\ [][NextDrain]_vars
    /\ WF_vars(AudioRun)
    /\ WF_vars(\E io \in BackendAnswers : RunOutHwDrain(io))
    /\ WF_vars(RunOutSw)
    /\ WF_vars(RunOutEnd)
    /\ WF_vars(CbReturn)
    /\ WF_vars(RunCapture)

\* SpecMirror: two playing hardware voices under one capture sink.  Voice 1
\* on hardware voice 1 and voice 3 on hardware voice 2 (voice 2 is not
\* open) have been switched on after two capture consumers registered; the
\* devices write, also from their callbacks.
MirrorState ==
    Fresh(AUD_set_active_out(
              AUD_set_active_out(
                  AUD_add_capture(
                      AUD_add_capture(
                          [InitState([w \in SW |-> IF w = 3 THEN 2 ELSE 1])
                              EXCEPT !.hw[1].sws = <<1>>,
                                     !.sw[2].open = FALSE],
                          1, 1),
                      1, 2),
                  1, 1),
              3, 1))

InitMirror ==
    /\ s = MirrorState
    /\ run = Idle
    /\ obs = NoObs

NextMirror ==
    \/ \E w \in SW, size \in WriteSizes : DevWrite(w, size)
    \/ AudioRun
    \/ \E io \in BackendAnswers : RunOutHw(io)
    \/ RunOutSw
    \/ RunOutEnd
    \/ \E size \in WriteSizes : CbWrite(size)
    \/ CbReturn
    \/ RunCapture

SpecMirror == InitMirror /\ [][NextMirror]_vars

\* SpecAttach: as Spec, starting without a sink; capture consumers register
\* while the voices play.
InitAttach ==
    /\ s = TwoVoices
    /\ run = Idle
    /\ obs = NoObs

NextAttach ==
    \/ \E w \in SW, size \in WriteSizes : DevWrite(w, size)
    \/ \E w \in SW, on \in {0, 1} : DevSetActive(w, on)
    \/ \E c \in CAP : AddCapture(c, 1)
    \/ AudioRun
    \/ \E io \in BackendAnswers : RunOutHw(io)
    \/ RunOutSw
    \/ RunOutEnd
    \/ \E size \in WriteSizes : CbWrite(size)
    \/ \E w \in SW, on \in {0, 1} : CbSetActive(w, on)
    \/ CbReturn
    \/ RunCapture

SpecAttach == InitAttach /\ [][NextAttach]_vars

\* SpecClean: the cleanup pass.  Voices 1 and 2 on hardware voice 1 are
\* dead: inactive, without a callback and without a device that holds them,
\* with m1 and m2 frames still mixed; voice 3 on the same hardware voice is
\* a device's voice and has been switched on.
DeadVoice(m) ==
    [NewVoice(1) EXCEPT !.cb = FALSE, !.mixed = m, !.empty = (m = 0)]

CleanState(m1, m2) ==
    [AUD_set_active_out(InitState([w \in SW |-> 1]), 3, 1)
        EXCEPT !.sw[1] = DeadVoice(m1), !.sw[2] = DeadVoice(m2),
               !.ctl = <<>>]

\* the voices a device holds
Held(st) == {w \in SW : st.sw[w].open /\ st.sw[w].cb}

InitClean ==
    /\ s \in {CleanState(m1, m2) : m1 \in 0..BufSize, m2 \in 0..BufSize}
    /\ run = Idle
    /\ obs = NoObs

NextClean ==
    \/ \E w \in Held(s), size \in WriteSizes : DevWrite(w, size)
    \/ \E w \in Held(s), on \in {0, 1} : DevSetActive(w, on)
    \/ AudioRun
    \/ \E io \in BackendAnswers : RunOutHw(io)
    \/ RunOutSw
    \/ RunOutEnd
    \/ \E size \in WriteSizes : CbWrite(size)
    \/ \E w \in Held(s), on \in {0, 1} : CbSetActive(w, on)
    \/ CbReturn
    \/ RunCapture

SpecClean == InitClean /\ [][NextClean]_vars

\* SpecMixClean: as SpecClean, with the frames of the mix buffers: the m
\* frames a dead voice has mixed lie from the read position 0 on
MixCleanState(m1, m2) ==
    LET st == CleanState(m1, m2)
    IN  [vm_running |-> st.vm_running, hwlist |-> st.hwlist,
         hw |-> st.hw, sw |-> st.sw, caplist |-> st.caplist,
         cap |-> st.cap, tap |-> st.tap, notes |-> st.notes,
         trans |-> st.trans, destroyed |-> st.destroyed, ctl |-> st.ctl,
         lastnote |-> st.lastnote, captured |-> st.captured,
         buf |-> [h \in HW |->
                     [i \in 0..(st.hw[h].samples - 1) |->
                         IF h = 1
                         THEN {w \in {1, 2} : i < st.sw[w].mixed}
                         ELSE {}]]]

InitMixClean ==
    /\ s \in {MixCleanState(m1, m2) : m1 \in 0..BufSize, m2 \in 0..BufSize}
    /\ run = Idle
    /\ obs = NoObs

SpecMixClean == InitMixClean /\ [][NextClean]_vars

\* SpecCap: the control path.  Voice 1 on hardware voice 1, voice 3 on
\* hardware voice 2 (voice 2 is not open); capture consumers come and go
\* and the VM is stopped and resumed while the voices are switched on and
\* off.  Nothing is written here: the buffers stay empty.
InitCap ==
    /\ s = [InitState([w \in SW |-> IF w = 3 THEN 2 ELSE 1])
               EXCEPT !.hw[1].sws = <<1>>, !.sw[2].open = FALSE]
    /\ run = Idle
    /\ obs = NoObs

NextCap ==
    \/ \E w \in SW, on \in {0, 1} : DevSetActive(w, on)
    \/ \E c \in CAP, cb \in CB : AddCapture(c, cb)
    \/ \E c \in CAP, cb \in CB : DelCapture(c, cb)
    \/ \E running \in BOOLEAN : VmChange(running)
    \/ AudioRun
    \/ \E io \in BackendAnswers : RunOutHw(io)
    \/ RunOutSw
    \/ RunOutEnd
    \/ \E w \in SW, on \in {0, 1} : CbSetActive(w, on)
    \/ CbReturn
    \/ RunCapture

SpecCap == InitCap /\ [][NextCap]_vars

\* SpecAttachFail: as SpecCap with one callback for each sink and the VM
\* running, and with attaches that fail while capture consumers register.
NextAttachFail ==
    \/ \E w \in SW, on \in {0, 1} : DevSetActive(w, on)
    \/ \E c \in CAP : AddCapture(c, 1)
    \/ \E c \in CAP, hf \in HW, k \in 1..Cardinality(CAP) :
           AddCaptureFail(c, 1, hf, k)
    \/ \E c \in CAP : DelCapture(c, 1)
    \/ AudioRun
    \/ \E io \in BackendAnswers : RunOutHw(io)
    \/ RunOutSw
    \/ RunOutEnd
    \/ \E w \in SW, on \in {0, 1} : CbSetActive(w, on)
    \/ CbReturn
    \/ RunCapture

SpecAttachFail == InitCap /\ [][NextAttachFail]_vars

\* SpecSettings: as SpecCap with the VM running and one callback for each
\* sink; the capture consumers come with good and bad settings.
NextSettings ==
    \/ \E w \in SW, on \in {0, 1} : DevSetActive(w, on)
    \/ \E as \in Settings : AddCaptureAs(as, 1)
    \/ \E c \in CAP : DelCapture(c, 1)
    \/ AudioRun
    \/ \E io \in BackendAnswers : RunOutHw(io)
    \/ RunOutSw
    \/ RunOutEnd
    \/ CbReturn
    \/ RunCapture

SpecSettings == InitCap /\ [][NextSettings]_vars

\* SpecWrite: audio_pcm_sw_write alone.  One voice of rate sf and shift sh
\* on a mix buffer of n frames of rate hf read at position p; the voice is
\* written to again and again and nothing drains the buffer.  `sum` adds up
\* the byte counts the calls returned.
WriteRates == {InfoFreq, 2 * InfoFreq}

WriteVoice(sf, hf, sh) ==
    [active |-> 1, empty |-> TRUE, mixed |-> 0,
     ratio |-> Ratio(hf, sf), rate |-> st_rate_start(sf, hf), shift |-> sh]

InitWrite ==
    /\ s \in {[v |-> WriteVoice(sf, hf, sh), samples |-> n, pos |-> p,
                sum |-> 0] :
                 sf \in WriteRates, hf \in WriteRates, sh \in 0..InfoShift,
                 n \in 1..(2 * BufSize), p \in 0..(2 * BufSize - 1)}
    /\ s.pos < s.samples
    /\ run = Idle
    /\ obs = NoObs

SwWrite(size) ==
    /\ LET r == audio_pcm_sw_write(s.v, s.samples, s.pos, size)
       IN  /\ s' = [s EXCEPT !.v = r.v, !.sum = @ + r.ret]
           /\ obs' = [NoObs EXCEPT !.op = "audio_pcm_sw_write",
                                   !.size = size, !.ret = r.ret,
                                   !.slots = r.slots]
    /\ UNCHANGED run

NextWrite == \E size \in 0..Shl(2 * BufSize, InfoShift) : SwWrite(size)

SpecWrite == InitWrite /\ [][NextWrite]_vars

(* --------------------------- recording path --------------------------- *)
\* The state of the recording side: one capture hardware voice `hwin`
\* (enabled, total_samples_captured, conv_buf pos and size, the emulated
\* buffer of the generic get_buffer_in) and its software voices `swin`.

\* audio_pcm_hw_find_min_in
RECURSIVE FindMinIn(_, _, _)
FindMinIn(st, q, m) ==
    IF q = <<>> THEN m
    ELSE FindMinIn(st, Tail(q),
                   IF st.swin[Head(q)].active # 0
                   THEN audio_MIN(m, st.swin[Head(q)].acquired)
                   ELSE m)

audio_pcm_hw_find_min_in(st) ==
    FindMinIn(st, st.hwin.sws, st.hwin.total_samples_captured)

audio_pcm_hw_get_live_in(st) ==
    LET live == USub(st.hwin.total_samples_captured,
                     audio_pcm_hw_find_min_in(st))
    IN  IF live > st.hwin.size THEN 0 ELSE live

\* bytes of an emulation buffer are numbered modulo IdMod
IdMod == 2 * Shl(BufSize, InfoShift) + 1

\* the read loop of audio_generic_get_buffer_in; `reads` is what the
\* backend's read returns call after call (bytes; nothing once it is used up)
RECURSIVE GenericFill(_, _)
GenericFill(hw, reads) ==
    IF hw.pending_emul >= hw.size_emul THEN [hw |-> hw, reads |-> reads]
    ELSE LET read_len == audio_MIN(hw.size_emul - hw.pos_emul,
                                   hw.size_emul - hw.pending_emul)
             read == IF reads = <<>> THEN 0
                     ELSE audio_MIN(Head(reads), read_len)
             rest == IF reads = <<>> THEN <<>> ELSE Tail(reads)
             hw1 == [hw EXCEPT !.pending_emul = @ + read]
         IN  IF read < read_len THEN [hw |-> hw1, reads |-> rest]
             ELSE GenericFill(hw1, rest)

\* audio_generic_get_buffer_in: the size it stores in *size
audio_generic_get_buffer_in(hw, reads) ==
    LET f == GenericFill(hw, reads)
        start0 == f.hw.pos_emul - f.hw.pending_emul
        start == IF start0 < 0 THEN start0 + f.hw.size_emul ELSE start0
    IN  [hw |-> f.hw, reads |-> f.reads,
         size |-> audio_MIN(f.hw.pending_emul, f.hw.size_emul - start)]

audio_generic_put_buffer_in(hw, size) ==
    [hw EXCEPT !.pending_emul = @ - size]

\* audio_pcm_hw_run_in
RECURSIVE HwRunIn(_, _, _, _)
HwRunIn(hw, samples, reads, conv) ==
    IF samples = 0 THEN [hw |-> hw, conv |-> conv]
    ELSE LET g == audio_generic_get_buffer_in(hw, reads)
         IN  IF g.size = 0
             THEN [hw |-> audio_generic_put_buffer_in(g.hw, 0), conv |-> conv]
             ELSE LET proc == audio_MIN(Shr(g.size, hw.shift),
                                        g.hw.size - g.hw.pos)
                      hw1 == [g.hw EXCEPT !.pos = (@ + proc) % g.hw.size]
                  IN  HwRunIn(audio_generic_put_buffer_in(
                                  hw1, Shl(proc, hw.shift)),
                              USub(samples, proc), g.reads,
                              (conv + proc) % (SIZE_MAX + 1))

audio_pcm_hw_run_in(hw, samples, reads) == HwRunIn(hw, samples, reads, 0)

\* audio_pcm_sw_get_rpos_in: live is an ssize_t there
audio_pcm_sw_get_rpos_in(st, w) ==
    LET hw == st.hwin
        live == USub(hw.total_samples_captured, st.swin[w].acquired)
    IN  IF live > SIZE_MAX \div 2 \/ live > hw.size THEN 0
        ELSE IF hw.pos - live >= 0 THEN hw.pos - live
             ELSE hw.size + hw.pos - live

\* the loop of audio_pcm_sw_read (st_rate_flow counts as st_rate_flow_mix)
RECURSIVE SwReadLoop(_, _, _, _, _, _, _)
SwReadLoop(size, pos, r, swlim, rpos, ret, total) ==
    LET isamp == IF pos > rpos THEN pos - rpos ELSE size - rpos
    IN  IF swlim = 0 \/ isamp = 0
        THEN [rate |-> r, ret |-> ret, total |-> total]
        ELSE LET f == st_rate_flow_mix(r, isamp, swlim)
             IN  SwReadLoop(size, pos, f.rate, swlim - f.osamp,
                            (rpos + f.isamp) % size, ret + f.osamp,
                            total + f.isamp)

\* audio_pcm_sw_read that bounds the frames it converts by `size` alone
audio_pcm_sw_read_unbounded(st, w, size) ==
    LET hw == st.hwin
        v == st.swin[w]
        rpos == audio_pcm_sw_get_rpos_in(st, w) % hw.size
        live == USub(hw.total_samples_captured, v.acquired)
        samples == Shr(size, v.shift)
        swlim == samples
        r == SwReadLoop(hw.size, hw.pos, v.rate, swlim, rpos, 0, 0)
    IN  IF live > hw.size \/ live = 0
        THEN [st |-> st, ret |-> 0, total |-> 0]
        ELSE [st |-> [st EXCEPT !.swin[w].rate = r.rate,
                                !.swin[w].acquired =
                                    (@ + r.total) % (SIZE_MAX + 1)],
              ret |-> Shl(r.ret, v.shift), total |-> r.total]

\* audio_pcm_sw_read: the state after it, the returned byte count and the
\* frames of the conversion buffer it consumed
audio_pcm_sw_read(st, w, size) ==
    LET hw == st.hwin
        v == st.swin[w]
        rpos == audio_pcm_sw_get_rpos_in(st, w) % hw.size
        live == USub(hw.total_samples_captured, v.acquired)
        samples == Shr(size, v.shift)
        swlim == audio_MIN(Shr(live * v.ratio, FracBits), samples)
        r == SwReadLoop(hw.size, hw.pos, v.rate, swlim, rpos, 0, 0)
    IN  IF live > hw.size \/ live = 0
        THEN [st |-> st, ret |-> 0, total |-> 0]
        ELSE [st |-> [st EXCEPT !.swin[w].rate = r.rate,
                                !.swin[w].acquired =
                                    (@ + r.total) % (SIZE_MAX + 1)],
              ret |-> Shl(r.ret, v.shift), total |-> r.total]

\* AUD_read with the mixing engine on
AUD_read(st, w, size) ==
    IF st.hwin.enabled = 0 THEN [st |-> st, ret |-> 0, total |-> 0]
    ELSE audio_pcm_sw_read(st, w, size)

\* AUD_set_active_in that leaves the hardware voice enabled when the last
\* active voice is switched off
AUD_set_active_in_deferred(st, w, on) ==
    LET hw == st.hwin
        st1 == IF on = 1
               THEN [(IF hw.enabled = 0
                      THEN [st EXCEPT !.hwin.enabled = 1,
                                      !.ctl = IF st.vm_running
                                              THEN Append(@, <<0, VOICE_ENABLE>>)
                                              ELSE @]
                      ELSE st)
                     EXCEPT !.swin[w].acquired = hw.total_samples_captured]
               ELSE st
    IN  IF st.swin[w].active # on
        THEN [st1 EXCEPT !.swin[w].active = on]
        ELSE st

AUD_set_active_in(st, w, on) ==
    LET hw == st.hwin
        nb_active == Cardinality({x \in Range(hw.sws) :
                                     st.swin[x].active # 0})
        e == [st EXCEPT !.hwin.enabled = 1,
                        !.ctl = IF st.vm_running
                                THEN Append(@, <<0, VOICE_ENABLE>>)
                                ELSE @]
        st1 == IF on = 1
               THEN [(IF hw.enabled = 0
                      THEN IF st.vm_running THEN audio_reset_timer(e) ELSE e
                      ELSE st)
                     EXCEPT !.swin[w].acquired = hw.total_samples_captured]
               ELSE IF hw.enabled = 1 /\ nb_active = 1
                    THEN [st EXCEPT !.hwin.enabled = 0,
                                    !.ctl = Append(@, <<0, VOICE_DISABLE>>)]
                    ELSE st
    IN  IF st.swin[w].active # on
        THEN [st1 EXCEPT !.swin[w].active = on]
        ELSE st

\* audio_get_avail
audio_get_avail(st, w) ==
    LET live == USub(st.hwin.total_samples_captured, st.swin[w].acquired)
    IN  IF live > st.hwin.size THEN 0
        ELSE Shl(Shl(live, FracBits) \div st.swin[w].ratio, st.swin[w].shift)

\* audio_run_in adding the captured frames without taking the minimum off
audio_run_in_no_rebase(st, reads) ==
    LET free == st.hwin.size - audio_pcm_hw_get_live_in(st)
        r == audio_pcm_hw_run_in(st.hwin, free, reads)
        min == audio_pcm_hw_find_min_in(st)
    IN  [st |-> [st EXCEPT !.hwin = [r.hw EXCEPT !.total_samples_captured =
                               (@ + r.conv) % (SIZE_MAX + 1)]],
         free |-> free, captured |-> r.conv, min |-> min]

\* audio_run_in for the capture hardware voice, up to the per-voice loop:
\* the state after it, the frames audio_pcm_hw_run_in was asked for and
\* returned, and the minimum the counters are rebased by
audio_run_in(st, reads) ==
    LET free == st.hwin.size - audio_pcm_hw_get_live_in(st)
        r == audio_pcm_hw_run_in(st.hwin, free, reads)
        min == audio_pcm_hw_find_min_in(st)
    IN  [st |-> [st EXCEPT !.hwin = [r.hw EXCEPT !.total_samples_captured =
                               (@ + USub(r.conv, min)) % (SIZE_MAX + 1)]],
         free |-> free, captured |-> r.conv, min |-> min]

INSW == {1, 2}

InState ==
    [vm_running |-> TRUE,
     hwin |-> [enabled |-> 0, total_samples_captured |-> 0, pos |-> 0,
               size |-> BufSize, shift |-> InfoShift,
               size_emul |-> Shl(BufSize, InfoShift), pos_emul |-> 0,
               pending_emul |-> 0, sws |-> <<1, 2>>],
     swin |-> [w \in INSW |->
                  [active |-> 0, acquired |-> 0,
                   ratio |-> Ratio(InfoFreq, InfoFreq), rate |-> NoRate,
                   shift |-> InfoShift]],
     ctl |-> <<>>]

\* byte counts of whole frames
FrameSizes == {Shl(n, InfoShift) : n \in 0..BufSize}

\* what the backend's read may return in one pass
BackendReads == SeqsUpTo(FrameSizes, MaxChunks)

InSetActive(w, on) ==
    /\ run.pc = "idle"
    /\ w \in Range(s.hwin.sws)
    /\ s' = AUD_set_active_in([s EXCEPT !.ctl = <<>>], w, on)
    /\ obs' = [NoObs EXCEPT !.op = "AUD_set_active_in", !.w = w, !.on = on,
                            !.pre_enabled = s.hwin.enabled,
                            !.pre_active = s.swin[w].active]
    /\ UNCHANGED run

InRead(w, size) ==
    /\ run.pc = "idle"
    /\ w \in Range(s.hwin.sws)
    /\ LET r == AUD_read([s EXCEPT !.ctl = <<>>], w, size)
       IN  /\ s' = r.st
           /\ obs' = [NoObs EXCEPT !.op = "AUD_read", !.w = w,
                                   !.size = size, !.ret = r.ret,
                                   !.consumed = r.total,
                                   !.pre_active = s.swin[w].active]
    /\ UNCHANGED run

\* audio_run reaches audio_run_in and the capture hardware voice is enabled
\* (the passes stop once a voice is two buffers behind)
RunInHw(reads) ==
    /\ run.pc = "idle"
    /\ s.hwin.enabled = 1
    /\ \A w \in INSW : USub(s.hwin.total_samples_captured,
                             s.swin[w].acquired) <= 2 * s.hwin.size
    /\ LET r == audio_run_in([s EXCEPT !.ctl = <<>>], reads)
       IN  /\ s' = r.st
           /\ run' = [Idle EXCEPT !.pc = "in_sw", !.swq = s.hwin.sws,
                                  !.min = r.min, !.captured = r.captured]
           /\ obs' = [NoObs EXCEPT !.op = "audio_run_in", !.free = r.free,
                                   !.captured = r.captured]

\* one turn of the per-voice loop of audio_run_in, up to the callback
RunInSw ==
    /\ run.pc = "in_sw"
    /\ run.swq # <<>>
    /\ LET w == Head(run.swq)
           st == [s EXCEPT !.ctl = <<>>,
                           !.swin[w].acquired = USub(@, run.min)]
           avail == IF st.swin[w].active # 0 THEN audio_get_avail(st, w)
                    ELSE 0
       IN  /\ s' = st
           /\ run' = [run EXCEPT !.pc = IF avail > 0 THEN "in_cb"
                                        ELSE "in_sw",
                                 !.swq = Tail(run.swq), !.w = w,
                                 !.free = avail]
           /\ obs' = [NoObs EXCEPT !.op = "run_in_sw", !.w = w,
                                   !.ret = avail]

\* inside the read-availability callback of voice run.w the device reads
InCbRead(size) ==
    /\ run.pc = "in_cb"
    /\ LET r == AUD_read([s EXCEPT !.ctl = <<>>], run.w, size)
       IN  /\ s' = r.st
           /\ obs' = [NoObs EXCEPT !.op = "cb_AUD_read", !.w = run.w,
                                   !.size = size, !.ret = r.ret,
                                   !.consumed = r.total,
                                   !.pre_active = s.swin[run.w].active]
    /\ UNCHANGED run

InCbReturn ==
    /\ run.pc = "in_cb"
    /\ run' = [run EXCEPT !.pc = "in_sw"]
    /\ s' = [s EXCEPT !.ctl = <<>>]
    /\ obs' = [NoObs EXCEPT !.op = "cb_return", !.w = run.w]

\* the per-voice loop is over
RunInEnd ==
    /\ run.pc = "in_sw"
    /\ run.swq = <<>>
    /\ run' = Idle
    /\ s' = [s EXCEPT !.ctl = <<>>]
    /\ obs' = [NoObs EXCEPT !.op = "run_in_end"]

\* SpecIn: the recording path.  Two software voices on one capture hardware
\* voice whose backend uses the generic buffer emulation; devices switch
\* the voices on and off and read, also from their callbacks.
InitIn ==
    /\ s = InState
    /\ run = Idle
    /\ obs = NoObs

NextIn ==
    \/ \E w \in INSW, on \in {0, 1} : InSetActive(w, on)
    \/ \E w \in INSW, size \in WriteSizes : InRead(w, size)
    \/ \E reads \in BackendReads : RunInHw(reads)
    \/ RunInSw
    \/ \E size \in FrameSizes : InCbRead(size)
    \/ InCbReturn
    \/ RunInEnd

SpecIn == InitIn /\ [][NextIn]_vars

\* SpecRead: one recording voice of rate sf on a capture hardware voice of
\* rate hf with a conversion buffer of 2 * BufSize frames, so that
\* audio_pcm_sw_read converts between the rates
ReadState(sf, hf) ==
    [InState EXCEPT !.hwin.size = 2 * BufSize,
                    !.hwin.size_emul = Shl(2 * BufSize, InfoShift),
                    !.hwin.sws = <<1>>,
                    !.swin[1].ratio = Ratio(sf, hf),
                    !.swin[1].rate = st_rate_start(hf, sf)]

InitRead ==
    /\ s \in {ReadState(sf, hf) : sf \in WriteRates, hf \in WriteRates}
    /\ run = Idle
    /\ obs = NoObs

SpecRead == InitRead /\ [][NextIn]_vars

\* SpecRing: the three ring buffers side by side.  Voice 1 plays on
\* hardware voice 1 under a capture sink with one callback, and voice 1 of
\* the capture hardware voice records; the devices write and read, and the
\* passes of audio_run_out with audio_run_capture and of audio_run_in take
\* turns.
RingState ==
    LET out == Fresh(AUD_set_active_out(
                   AUD_add_capture(
                       [InitState([w \in SW |-> 1])
                           EXCEPT !.hwlist = <<1>>,
                                  !.hw[1].sws = <<1>>,
                                  !.sw[2].open = FALSE,
                                  !.sw[3].open = FALSE],
                       1, 1),
                   1, 1))
        in == [AUD_set_active_in(InState, 1, 1) EXCEPT !.ctl = <<>>]
    IN  [vm_running |-> out.vm_running, hwlist |-> out.hwlist,
         hw |-> out.hw, sw |-> out.sw, caplist |-> out.caplist,
         cap |-> out.cap, tap |-> out.tap, notes |-> out.notes,
         trans |-> out.trans, destroyed |-> out.destroyed, ctl |-> out.ctl,
         lastnote |-> out.lastnote, captured |-> out.captured,
         hwin |-> in.hwin, swin |-> in.swin]

InitRing ==
    /\ s = RingState
    /\ run = Idle
    /\ obs = NoObs

NextRing ==
    \/ \E size \in WriteSizes : DevWrite(1, size)
    \/ AudioRun
    \/ \E io \in BackendAnswers : RunOutHw(io)
    \/ RunOutSw
    \/ RunOutEnd
    \/ CbReturn
    \/ RunCapture
    \/ \E reads \in BackendReads : RunInHw(reads)
    \/ RunInSw
    \/ \E size \in FrameSizes : InCbRead(size)
    \/ InCbReturn
    \/ RunInEnd

SpecRing == InitRing /\ [][NextRing]_vars

(* -------------------------------- timer ------------------------------- *)
\* SpecTimer: the timer of the engine.  One voice on one playback hardware
\* voice and two on the capture hardware voice, each hardware voice in poll
\* mode or not; the VM is stopped and resumed.  The capture backend has
\* nothing to deliver, so that audio_run_in calls no callback.
TimerState(poll_out, poll_in) ==
    LET out == [InitState([w \in SW |-> 1])
                   EXCEPT !.hwlist = <<1>>, !.hw[1].sws = <<1>>,
                          !.sw[2].open = FALSE, !.sw[3].open = FALSE]
        in == InState
    IN  [vm_running |-> out.vm_running, hwlist |-> out.hwlist,
         hw |-> out.hw, sw |-> out.sw, caplist |-> out.caplist,
         cap |-> out.cap, tap |-> out.tap, notes |-> out.notes,
         trans |-> out.trans, destroyed |-> out.destroyed, ctl |-> out.ctl,
         lastnote |-> out.lastnote, captured |-> out.captured,
         hwin |-> in.hwin, swin |-> in.swin,
         ts |-> FALSE,
         poll_mode |-> [h \in {0} \cup HW |->
                           IF h = 0 THEN poll_in ELSE poll_out]]

\* the timer expires with the VM running (its clock is the virtual one):
\* audio_timer calls audio_run, which starts with audio_run_out
TimerFire ==
    /\ run.pc = "idle"
    /\ s.ts
    /\ s.vm_running
    /\ run' = [Idle EXCEPT !.pc = "out", !.hwq = s.hwlist]
    /\ s' = [Fresh(s) EXCEPT !.ts = FALSE]
    /\ obs' = [NoObs EXCEPT !.op = "audio_run"]

\* audio_run_out found no further enabled hardware voice: audio_run goes
\* on to audio_run_in
TimerRunIn ==
    /\ run.pc = "out"
    /\ FindEnabled(s, run.hwq) = <<>>
    /\ s' = IF s.hwin.enabled = 1 THEN audio_run_in(Fresh(s), <<>>).st
            ELSE Fresh(s)
    /\ run' = [Idle EXCEPT !.pc = "capture"]
    /\ obs' = [NoObs EXCEPT !.op = "audio_run_in"]

\* audio_run ends with audio_run_capture
TimerRunCapture ==
    /\ run.pc = "capture"
    /\ s' = audio_run_capture(Fresh(s))
    /\ run' = [Idle EXCEPT !.pc = "reset"]
    /\ obs' = [NoObs EXCEPT !.op = "audio_run_capture"]

\* audio_timer ends with audio_reset_timer
TimerEnd ==
    /\ run.pc = "reset"
    /\ s' = audio_reset_timer(s)
    /\ run' = Idle
    /\ obs' = [NoObs EXCEPT !.op = "audio_timer"]

InitTimer ==
    /\ s \in {TimerState(po, pi) : po \in {0, 1}, pi \in {0, 1}}
    /\ run = Idle
    /\ obs = NoObs

NextTimer ==
    \/ \E size \in WriteSizes : DevWrite(1, size)
    \/ \E on \in {0, 1} : DevSetActive(1, on)
    \/ \E w \in INSW, on \in {0, 1} : InSetActive(w, on)
    \/ \E running \in BOOLEAN : VmChange(running)
    \/ TimerFire
    \/ \E io \in BackendAnswers : RunOutHw(io)
    \/ RunOutSw
    \/ RunOutEnd
    \/ \E on \in {0, 1} : CbSetActive(1, on)
    \/ CbReturn
    \/ TimerRunIn
    \/ TimerRunCapture
    \/ TimerEnd

SpecTimer == InitTimer /\ [][NextTimer]_vars

(* ------------------- generic input buffer emulation ------------------- *)
\* SpecFifoIn: audio_pcm_hw_run_in over the generic input buffer emulation,
\* with the bytes of buf_emul: -1 is a byte of the buffer as g_malloc left
\* it.  dln counts the bytes handed to the engine so far.
FifoState ==
    [hwin |-> [pos |-> 0, size |-> BufSize, shift |-> InfoShift,
               size_emul |-> Shl(BufSize, InfoShift), pos_emul |-> 0,
               pending_emul |-> 0,
               buf_emul |-> [i \in 0..(Shl(BufSize, InfoShift) - 1) |-> -1],
               rdn |-> 0, dlv |-> <<>>],
     dln |-> 0]

\* the read loop of audio_generic_get_buffer_in with the bytes of buf_emul:
\* pcm_ops->read stores `read` bytes at buf_emul + pos_emul, and buf_emul
\* holds, for each offset, the number of the byte read from the backend that
\* lies there (rdn bytes were read so far)
RECURSIVE FifoFill(_, _)
FifoFill(hw, reads) ==
    IF hw.pending_emul >= hw.size_emul THEN [hw |-> hw, reads |-> reads]
    ELSE LET read_len == audio_MIN(hw.size_emul - hw.pos_emul,
                                   hw.size_emul - hw.pending_emul)
             read == IF reads = <<>> THEN 0
                     ELSE audio_MIN(Head(reads), read_len)
             rest == IF reads = <<>> THEN <<>> ELSE Tail(reads)
             hw1 == [hw EXCEPT
                        !.buf_emul =
                            [i \in DOMAIN @ |->
                                IF hw.pos_emul <= i /\ i < hw.pos_emul + read
                                THEN (hw.rdn + (i - hw.pos_emul) + 1) % IdMod
                                ELSE @[i]],
                        !.rdn = (@ + read) % IdMod,
                        !.pending_emul = @ + read]
         IN  IF read < read_len THEN [hw |-> hw1, reads |-> rest]
             ELSE FifoFill(hw1, rest)

\* audio_generic_get_buffer_in with the bytes of buf_emul: the offset of the
\* buffer it returns and the size it stores in *size
FifoGetBufferIn(hw, reads) ==
    LET f == FifoFill(hw, reads)
        start0 == f.hw.pos_emul - f.hw.pending_emul
        start == IF start0 < 0 THEN start0 + f.hw.size_emul ELSE start0
    IN  [hw |-> f.hw, reads |-> f.reads, start |-> start,
         size |-> audio_MIN(f.hw.pending_emul, f.hw.size_emul - start)]

\* audio_pcm_hw_run_in with the bytes of buf_emul: hw->conv takes the bytes
\* at buf_emul + start, which dlv lists for the call
RECURSIVE FifoHwRunIn(_, _, _, _)
FifoHwRunIn(hw, samples, reads, conv) ==
    IF samples = 0 THEN [hw |-> hw, conv |-> conv]
    ELSE LET g == FifoGetBufferIn(hw, reads)
         IN  IF g.size = 0
             THEN [hw |-> audio_generic_put_buffer_in(g.hw, 0), conv |-> conv]
             ELSE LET proc == audio_MIN(Shr(g.size, hw.shift),
                                        g.hw.size - g.hw.pos)
                      hw1 == [g.hw EXCEPT
                                 !.dlv = @ \o [k \in 1..Shl(proc, hw.shift) |->
                                                 g.hw.buf_emul[g.start + k - 1]],
                                 !.pos = (@ + proc) % g.hw.size]
                  IN  FifoHwRunIn(audio_generic_put_buffer_in(
                                      hw1, Shl(proc, hw.shift)),
                                  USub(samples, proc), g.reads,
                                  (conv + proc) % (SIZE_MAX + 1))

\* audio_run_in calls audio_pcm_hw_run_in with room for `samples` frames
FifoRunIn(samples, reads) ==
    /\ LET r == FifoHwRunIn([s.hwin EXCEPT !.dlv = <<>>], samples, reads, 0)
       IN  /\ s' = [hwin |-> r.hw,
                    dln |-> (s.dln + Len(r.hw.dlv)) % IdMod]
           /\ obs' = [NoObs EXCEPT !.op = "audio_pcm_hw_run_in",
                                   !.size = samples, !.captured = r.conv]
    /\ UNCHANGED run

InitFifoIn ==
    /\ s = FifoState
    /\ run = Idle
    /\ obs = NoObs

NextFifoIn ==
    \E samples \in 1..BufSize, reads \in BackendReads :
        FifoRunIn(samples, reads)

SpecFifoIn == InitFifoIn /\ [][NextFifoIn]_vars

(* ------------------- generic output buffer emulation ------------------ *)
\* The emulation buffer of a playback hardware voice is kept as
\* [size, pos, pending] (size_emul, pos_emul, pending_emul, in bytes), buf
\* (the byte at each offset of buf_emul, as the number of the accepted byte
\* it holds) and acc and wrn, the numbers of bytes accepted so far and
\* passed to pcm_ops->write so far.  Byte numbers are kept modulo IdMod,
\* more than twice size_emul, so that pending bytes have distinct numbers.
\* <<>> is the voice whose buf_emul is not allocated yet; a pointer is a
\* pair of an object and an offset.
\* the bytes log[1..] of a step: what the step passed to pcm_ops->write,
\* whether its assertions held
NoEmulLog == [written |-> <<>>, asserted |-> TRUE, calls |-> 0]

\* the allocation at the head of audio_generic_get_buffer_out
EmulAlloc(e, samples, shift) ==
    IF e # <<>> THEN e
    ELSE [size |-> Shl(samples, shift), pos |-> 0, pending |-> 0,
          buf |-> [i \in 0..(Shl(samples, shift) - 1) |-> -1],
          acc |-> 0, wrn |-> 0]

\* audio_generic_get_buffer_out
audio_generic_get_buffer_out(e, samples, shift) ==
    LET e1 == EmulAlloc(e, samples, shift)
    IN  [e |-> e1, buf |-> <<"buf_emul", e1.pos>>,
         size |-> audio_MIN(e1.size - e1.pending, e1.size - e1.pos)]

\* the caller stored `size` bytes at dst before put_buffer_out: they are
\* the next bytes accepted
StoreBytes(e, dst, size) ==
    [e EXCEPT !.buf = [i \in DOMAIN e.buf |->
                          IF dst <= i /\ i < dst + size
                          THEN (e.acc + (i - dst) + 1) % IdMod
                          ELSE e.buf[i]]]

\* audio_generic_put_buffer_out_nowrite; asserted is its assertion
audio_generic_put_buffer_out_nowrite(e, buf, size) ==
    [e |-> [e EXCEPT !.pending = e.pending + size,
                     !.pos = (e.pos + size) % e.size,
                     !.acc = (e.acc + size) % IdMod],
     ret |-> size,
     asserted |-> buf = <<"buf_emul", e.pos>> /\ size + e.pending <= e.size]

\* the write loop of audio_generic_put_buffer_out: ws are the byte counts
\* pcm_ops->write is ready to take, call after call (none left: 0)
RECURSIVE EmulFlush(_, _, _)
EmulFlush(e, ws, written) ==
    IF e.pending = 0 THEN [e |-> e, ws |-> ws, written |-> written]
    ELSE LET start0 == e.pos - e.pending
             start == IF start0 < 0 THEN start0 + e.size ELSE start0
             write_len == audio_MIN(e.pending, e.size - start)
             n == IF ws = <<>> THEN 0 ELSE audio_MIN(Head(ws), write_len)
             rest == IF ws = <<>> THEN <<>> ELSE Tail(ws)
             e1 == [e EXCEPT !.pending = e.pending - n,
                             !.wrn = (e.wrn + n) % IdMod]
             w1 == written \o [k \in 1..n |-> e.buf[start + k - 1]]
         IN  IF n < write_len THEN [e |-> e1, ws |-> rest, written |-> w1]
             ELSE EmulFlush(e1, rest, w1)

\* audio_generic_put_buffer_out
audio_generic_put_buffer_out(e, buf, size, ws) ==
    LET p == audio_generic_put_buffer_out_nowrite(e, buf, size)
        f == EmulFlush(p.e, ws, <<>>)
    IN  [e |-> f.e, ws |-> f.ws, written |-> f.written, ret |-> size,
         asserted |-> p.asserted]

\* audio_pcm_hw_run_out on a hardware voice whose get_buffer_out and
\* put_buffer_out are the generic ones
RECURSIVE EmulRunOut(_, _, _, _, _, _, _, _)
EmulRunOut(samples, shift, pos, live, e, ws, clipped, log) ==
    IF live = 0
    THEN [pos |-> pos, clipped |-> clipped, e |-> e, log |-> log]
    ELSE LET g == audio_generic_get_buffer_out(e, samples, shift)
             decr == audio_MIN(Shr(g.size, shift), live)
             e1 == StoreBytes(g.e, g.buf[2], Shl(decr, shift))
             p == audio_generic_put_buffer_out(e1, g.buf, Shl(decr, shift),
                                               ws)
             proc == Shr(p.ret, shift)
             log1 == [written |-> log.written \o p.written,
                      asserted |-> log.asserted /\ p.asserted,
                      calls |-> log.calls + 1]
         IN  IF proc = 0 \/ proc < decr
             THEN [pos |-> (pos + proc) % samples,
                   clipped |-> clipped + proc, e |-> p.e, log |-> log1]
             ELSE EmulRunOut(samples, shift, (pos + proc) % samples,
                             live - proc, p.e, p.ws, clipped + proc, log1)

\* audio_generic_write(hw, buf, size), with the generic get_buffer_out and
\* put_buffer_out_nowrite behind pcm_ops
audio_generic_write(e, samples, shift, size) ==
    LET g == audio_generic_get_buffer_out(e, samples, shift)
        copy_size == audio_MIN(size, g.size)
        e1 == StoreBytes(g.e, g.buf[2], copy_size)
        p == audio_generic_put_buffer_out_nowrite(e1, <<"buf", 0>>,
                                                  copy_size)
    IN  [e |-> p.e, ret |-> p.ret, asserted |-> p.asserted]

\* one playback hardware voice with one voice and no sink; with the mixing
\* engine the backend has a write of its own behind the generic
\* put_buffer_out, without it pcm_ops->write is audio_generic_write
EmulState(mixeng) ==
    LET st == [InitState([w \in SW |-> 1])
                  EXCEPT !.hwlist = <<1>>, !.hw[1].sws = <<1>>,
                         !.sw[2].open = FALSE, !.sw[3].open = FALSE]
    IN  [vm_running |-> st.vm_running, hwlist |-> st.hwlist,
         hw |-> st.hw, sw |-> st.sw, caplist |-> st.caplist,
         cap |-> st.cap, tap |-> st.tap, notes |-> st.notes,
         trans |-> st.trans, destroyed |-> st.destroyed, ctl |-> st.ctl,
         lastnote |-> st.lastnote, captured |-> st.captured,
         mixeng |-> mixeng, emul |-> <<>>]

\* what pcm_ops->write is ready to take, call after call
BackendWrites == SeqsUpTo(FrameSizes, MaxChunks)

\* a device calls AUD_write, mixing engine on
EmulDevWrite(size) ==
    /\ s.mixeng
    /\ DevWrite(1, size)

\* a device calls AUD_write, mixing engine off: pcm_ops->write.  A failed
\* assertion ends the program.
DirectWrite(size) ==
    /\ run.pc \in {"idle", "cb"}
    /\ ~s.mixeng
    /\ LET st == Fresh(s)
           r == audio_generic_write(st.emul, st.hw[1].samples,
                                    st.hw[1].shift, size)
           o == [NoObs EXCEPT !.op = "AUD_write", !.w = 1, !.h = 1,
                              !.size = size]
       IN  IF st.hw[1].enabled = 0
           THEN /\ s' = st
                /\ obs' = o
                /\ UNCHANGED run
           ELSE IF ~r.asserted
           THEN /\ s' = st
                /\ obs' = [o EXCEPT !.emul = [NoEmulLog EXCEPT
                                                 !.asserted = FALSE,
                                                 !.calls = 1]]
                /\ run' = [Idle EXCEPT !.pc = "aborted"]
           ELSE /\ s' = [st EXCEPT !.emul = r.e]
                /\ obs' = [o EXCEPT !.ret = r.ret,
                                    !.emul = [NoEmulLog EXCEPT !.calls = 1]]
                /\ UNCHANGED run

\* audio_run_out with the mixing engine reaches the next enabled hardware
\* voice, whose buffers are the generic ones
RunOutHwEmul(ws) ==
    /\ run.pc = "out"
    /\ s.mixeng
    /\ FindEnabled(s, run.hwq) # <<>>
    /\ LET q == FindEnabled(s, run.hwq)
           h == Head(q)
           st == Fresh(s)
           l == audio_pcm_hw_get_live_out(Voices(st, h), st.hw[h].samples)
           o == [NoObs EXCEPT !.op = "run_out_hw", !.h = h, !.live = l.live,
                              !.nb_live = l.nb_live]
       IN  IF st.hw[h].pending_disable = 1 /\ l.nb_live = 0
           THEN /\ s' = RunOutDisable(st, h)
                /\ run' = [run EXCEPT !.hwq = Tail(q)]
                /\ obs' = [o EXCEPT !.op = "run_out_disable"]
                /\ ws = <<>>
           ELSE IF l.live = 0
           THEN /\ s' = st
                /\ run' = [run EXCEPT !.pc = "sw", !.hwq = Tail(q), !.h = h,
                                      !.dec = FALSE, !.swq = st.hw[h].sws]
                /\ obs' = o
                /\ ws = <<>>
           ELSE LET prev_rpos == st.hw[h].pos
                    r == EmulRunOut(st.hw[h].samples, st.hw[h].shift,
                                    prev_rpos, l.live, st.emul, ws, 0,
                                    NoEmulLog)
                    st1 == [st EXCEPT !.hw[h].pos = r.pos, !.emul = r.e]
                    st2 == IF r.clipped # 0
                           THEN audio_capture_mix_and_clear(st1, h, prev_rpos,
                                                            r.clipped)
                           ELSE st1
                IN  /\ s' = st2
                    /\ run' = [run EXCEPT !.pc = "sw", !.hwq = Tail(q),
                                          !.h = h, !.dec = TRUE,
                                          !.swq = st.hw[h].sws,
                                          !.played = r.clipped,
                                          !.drained = r.clipped,
                                          !.cleanup = FALSE]
                    /\ obs' = [o EXCEPT !.played = r.clipped,
                                        !.drained = r.clipped,
                                        !.emul = r.log]

\* whether pcm_ops->enable_out is set: the backends that set ctl_out
\* (noaudio, wav, spice) do not set it
HasEnableOut(st) == "enable_out" \in DOMAIN st /\ st.enable_out

\* audio_run_out without the mixing engine reaches the next enabled
\* hardware voice: up to the callback of its one voice
RunOutDirect ==
    /\ run.pc = "out"
    /\ ~s.mixeng
    /\ FindEnabled(s, run.hwq) # <<>>
    /\ LET q == FindEnabled(s, run.hwq)
           h == Head(q)
           st == Fresh(s)
           w == Head(st.hw[h].sws)
           st1 == IF st.hw[h].pending_disable = 1
                  THEN [st EXCEPT !.hw[h].enabled = 0,
                                  !.hw[h].pending_disable = 0,
                                  !.ctl = IF HasEnableOut(st)
                                          THEN Append(@, <<h, "enable_out",
                                                           0>>)
                                          ELSE @]
                  ELSE st
       IN  /\ s' = st1
           /\ run' = [run EXCEPT !.pc = IF st.sw[w].active # 0 THEN "cb"
                                        ELSE "sw",
                                 !.hwq = Tail(q), !.h = h, !.dec = FALSE,
                                 !.swq = <<>>, !.w = w]
           /\ obs' = [NoObs EXCEPT !.op = IF st.hw[h].pending_disable = 1
                                          THEN "run_out_disable"
                                          ELSE "run_out_hw",
                                   !.h = h, !.w = w]

\* SpecEmul: the generic output buffer emulation under audio_run_out with
\* the mixing engine, and under audio_generic_write without it
InitEmul ==
    /\ s \in {EmulState(TRUE), EmulState(FALSE)}
    /\ run = Idle
    /\ obs = NoObs

NextEmul ==
    \/ \E size \in WriteSizes : EmulDevWrite(size)
    \/ \E size \in WriteSizes : DirectWrite(size)
    \/ \E on \in {0, 1} : DevSetActive(1, on)
    \/ AudioRun
    \/ \E ws \in BackendWrites : RunOutHwEmul(ws)
    \/ RunOutDirect
    \/ RunOutSw
    \/ RunOutEnd
    \/ CbReturn
    \/ RunCapture

SpecEmul == InitEmul /\ [][NextEmul]_vars

\* SpecCtl: SpecEmul with the run state of the VM changing, and the
\* command each backend received last kept in cmd
CtlState(mixeng) ==
    LET st == EmulState(mixeng)
    IN  [vm_running |-> st.vm_running, hwlist |-> st.hwlist,
         hw |-> st.hw, sw |-> st.sw, caplist |-> st.caplist,
         cap |-> st.cap, tap |-> st.tap, notes |-> st.notes,
         trans |-> st.trans, destroyed |-> st.destroyed, ctl |-> st.ctl,
         lastnote |-> st.lastnote, captured |-> st.captured,
         mixeng |-> mixeng, emul |-> <<>>, cmd |-> [h \in HW |-> 0]]

InitCtl ==
    /\ s \in {CtlState(TRUE), CtlState(FALSE)}
    /\ run = Idle
    /\ obs = NoObs

NextCtl ==
    \/ NextEmul
    \/ \E running \in BOOLEAN : VmChange(running)

SpecCtl == InitCtl /\ [][NextCtl]_vars

(* --------------------------- spice playback --------------------------- *)
\* SpiceVoiceOut as [frame, fpos, fsize]: frame is 1 while a frame of the
\* server is held (out->frame != NULL); fpos and fsize count samples of 4
\* bytes.  A pointer into the frame is <<"frame", offset in samples>>.
\* line_out_get_buffer; FrameSamples is the fsize the server hands out and
\* rate what rate_get_samples returns
line_out_get_buffer(out, shift, rate) ==
    LET out1 == IF out.frame = 0
                THEN [frame |-> 1, fpos |-> 0, fsize |-> FrameSamples]
                ELSE out
        decr == audio_MIN(out1.fsize - out1.fpos, rate)
    IN  [out |-> out1, buf |-> <<"frame", out1.fpos>>,
         size |-> Shl(decr, shift)]

\* line_out_put_buffer; asserted is its assertion, submitted whether it
\* called spice_server_playback_put_samples
line_out_put_buffer(out, buf, size) ==
    LET fpos == out.fpos + Shr(size, 2)
    IN  [out |-> IF fpos = out.fsize
                 THEN [out EXCEPT !.fpos = fpos, !.frame = 0]
                 ELSE [out EXCEPT !.fpos = fpos],
         ret |-> size,
         asserted |-> buf = <<"frame", fpos>> /\ fpos <= out.fsize,
         submitted |-> fpos = out.fsize]

\* audio_pcm_hw_run_out over line_out_get_buffer and line_out_put_buffer;
\* a failed assertion ends the loop and the program
RECURSIVE SpiceRunOut(_, _, _, _, _, _, _, _)
SpiceRunOut(samples, shift, pos, live, out, rates, clipped, puts) ==
    IF live = 0
    THEN [pos |-> pos, clipped |-> clipped, out |-> out, puts |-> puts]
    ELSE LET rate == IF rates = <<>> THEN 0 ELSE Head(rates)
             g == line_out_get_buffer(out, shift, rate)
             decr == audio_MIN(Shr(g.size, shift), live)
             p == line_out_put_buffer(g.out, g.buf, Shl(decr, shift))
             proc == Shr(p.ret, shift)
             puts1 == Append(puts, [size |-> Shl(decr, shift),
                                    fpos |-> p.out.fpos,
                                    fsize |-> p.out.fsize,
                                    asserted |-> p.asserted,
                                    submitted |-> p.submitted])
         IN  IF ~p.asserted
             THEN [pos |-> pos, clipped |-> clipped, out |-> g.out,
                   puts |-> puts1]
             ELSE IF proc = 0 \/ proc < decr
             THEN [pos |-> (pos + proc) % samples,
                   clipped |-> clipped + proc, out |-> p.out,
                   puts |-> puts1]
             ELSE SpiceRunOut(samples, shift, (pos + proc) % samples,
                              live - proc, p.out,
                              IF rates = <<>> THEN <<>> ELSE Tail(rates),
                              clipped + proc, puts1)

\* one playback hardware voice of the spice backend (stereo, 16 bit:
\* shift 2) with two voices and no frame of the server held
SpiceState ==
    LET st == [TwoVoices EXCEPT !.hwlist = <<1>>, !.hw[1].shift = 2]
    IN  [vm_running |-> st.vm_running, hwlist |-> st.hwlist,
         hw |-> st.hw, sw |-> st.sw, caplist |-> st.caplist,
         cap |-> st.cap, tap |-> st.tap, notes |-> st.notes,
         trans |-> st.trans, destroyed |-> st.destroyed, ctl |-> st.ctl,
         lastnote |-> st.lastnote, captured |-> st.captured,
         spice |-> [frame |-> 0, fpos |-> 0, fsize |-> 0]]

\* what rate_get_samples returns, call after call
SpiceRates == SeqsUpTo(0..BufSize, MaxChunks)

\* audio_run_out reaches the next enabled hardware voice, a voice of the
\* spice backend
RunOutHwSpice(rates) ==
    /\ run.pc = "out"
    /\ FindEnabled(s, run.hwq) # <<>>
    /\ LET q == FindEnabled(s, run.hwq)
           h == Head(q)
           st == Fresh(s)
           l == audio_pcm_hw_get_live_out(Voices(st, h), st.hw[h].samples)
           o == [NoObs EXCEPT !.op = "run_out_hw", !.h = h, !.live = l.live,
                              !.nb_live = l.nb_live]
       IN  IF st.hw[h].pending_disable = 1 /\ l.nb_live = 0
           THEN /\ s' = RunOutDisable(st, h)
                /\ run' = [run EXCEPT !.hwq = Tail(q)]
                /\ obs' = [o EXCEPT !.op = "run_out_disable"]
                /\ rates = <<>>
           ELSE IF l.live = 0
           THEN /\ s' = st
                /\ run' = [run EXCEPT !.pc = "sw", !.hwq = Tail(q), !.h = h,
                                      !.dec = FALSE, !.swq = st.hw[h].sws]
                /\ obs' = o
                /\ rates = <<>>
           ELSE LET prev_rpos == st.hw[h].pos
                    r == SpiceRunOut(st.hw[h].samples, st.hw[h].shift,
                                     prev_rpos, l.live, st.spice, rates, 0,
                                     <<>>)
                    st1 == [st EXCEPT !.hw[h].pos = r.pos, !.spice = r.out]
                    st2 == IF r.clipped # 0
                           THEN audio_capture_mix_and_clear(st1, h, prev_rpos,
                                                            r.clipped)
                           ELSE st1
                IN  /\ s' = st2
                    /\ run' = IF \E k \in 1..Len(r.puts) :
                                     ~r.puts[k].asserted
                              THEN [Idle EXCEPT !.pc = "aborted"]
                              ELSE [run EXCEPT !.pc = "sw", !.hwq = Tail(q),
                                               !.h = h, !.dec = TRUE,
                                               !.swq = st.hw[h].sws,
                                               !.played = r.clipped,
                                               !.drained = r.clipped,
                                               !.cleanup = FALSE]
                    /\ obs' = [o EXCEPT !.played = r.clipped,
                                        !.drained = r.clipped,
                                        !.puts = r.puts]

\* SpecSpice: the data path of Spec over the spice playback backend
InitSpice ==
    /\ s = SpiceState
    /\ run = Idle
    /\ obs = NoObs

NextSpice ==
    \/ \E w \in SW, size \in WriteSizes : DevWrite(w, size)
    \/ \E w \in SW, on \in {0, 1} : DevSetActive(w, on)
    \/ AudioRun
    \/ \E rates \in SpiceRates : RunOutHwSpice(rates)
    \/ RunOutSw
    \/ RunOutEnd
    \/ \E size \in WriteSizes : CbWrite(size)
    \/ \E w \in SW, on \in {0, 1} : CbSetActive(w, on)
    \/ CbReturn
    \/ RunCapture

SpecSpice == InitSpice /\ [][NextSpice]_vars

(* ------------------------- coreaudio playback ------------------------- *)
\* The coreaudio voice as [mixeng, emul, mutex]: emul is the emulation
\* buffer of the generic code, mutex the thread holding core->mutex
\* ("free", "engine", "io").  run holds the position of the engine thread
\* (eng) and of the CoreAudio I/O thread (io).
audioDevicePropertyBufferFrameSize == 1

CoreState(mixeng) == [mixeng |-> mixeng, emul |-> <<>>, mutex |-> "free"]

CoreIdle ==
    [eng |-> [pc |-> "idle", next |-> "idle", live |-> 0, buf |-> <<>>,
              size |-> 0, decr |-> 0],
     io |-> [pc |-> "idle", len |-> 0, out |-> <<>>, before |-> 0]]

\* what pthread_mutex_lock does in a thread that holds the mutex already:
\* the mutex has the default attributes, for which this is undefined; the
\* thread blocks for ever, gets an error, or gets the mutex once more
RelockOutcomes == {"blocked", "error", "acquired"}

CorePending(e) == IF e = <<>> THEN 0 ELSE e.pending

\* audioDeviceIOProc_copy taking the bytes at pos_emul, not the oldest
audioDeviceIOProc_copy_from_pos(e, len) ==
    LET start == e.pos
        write_len == audio_MIN(audio_MIN(e.pending, len), e.size - start)
    IN  [e |-> [e EXCEPT !.pending = e.pending - write_len,
                         !.wrn = (e.wrn + write_len) % IdMod],
         out |-> [k \in 1..write_len |-> e.buf[start + k - 1]],
         len |-> len - write_len,
         asserted |-> start >= 0 /\ start < e.size]

\* one round of the copy loop of audioDeviceIOProc with len bytes to go
audioDeviceIOProc_copy(e, len) ==
    LET start0 == e.pos - e.pending
        start == IF start0 < 0 THEN start0 + e.size ELSE start0
        write_len == audio_MIN(audio_MIN(e.pending, len), e.size - start)
    IN  [e |-> [e EXCEPT !.pending = e.pending - write_len,
                         !.wrn = (e.wrn + write_len) % IdMod],
         out |-> [k \in 1..write_len |-> e.buf[start + k - 1]],
         len |-> len - write_len,
         asserted |-> start >= 0 /\ start < e.size]

CoreLive == run.eng.pc \notin {"aborted", "deadlocked"}

\* audio_run_out calls audio_pcm_hw_run_out with live frames to play
EngRunOut(live) ==
    /\ run.eng.pc = "idle"
    /\ s.mixeng
    /\ run' = [run EXCEPT !.eng.pc = "lock", !.eng.next = "get",
                          !.eng.live = live]
    /\ obs' = [NoObs EXCEPT !.op = "audio_pcm_hw_run_out", !.live = live]
    /\ UNCHANGED s

\* AUD_write without the mixing engine calls pcm_ops->write, which is
\* coreaudio_write
EngWrite(size) ==
    /\ run.eng.pc = "idle"
    /\ ~s.mixeng
    /\ run' = [run EXCEPT !.eng.pc = "lock", !.eng.next = "w_get",
                          !.eng.size = size]
    /\ obs' = [NoObs EXCEPT !.op = "coreaudio_write", !.size = size]
    /\ UNCHANGED s

\* coreaudio_lock at the head of a wrapper, in the engine thread
EngLock ==
    /\ run.eng.pc = "lock"
    /\ s.mutex = "free"
    /\ s' = [s EXCEPT !.mutex = "engine"]
    /\ run' = [run EXCEPT !.eng.pc = run.eng.next]
    /\ obs' = [NoObs EXCEPT !.op = "coreaudio_lock",
                            !.emul = [by |-> "engine"]]

\* coreaudio_unlock at the end of a wrapper, and what the caller does with
\* the result up to the next call
EngUnlock ==
    /\ run.eng.pc = "unlock"
    /\ s' = [s EXCEPT !.mutex = "free"]
    /\ run' = [run EXCEPT !.eng.pc = run.eng.next]
    /\ obs' = [NoObs EXCEPT !.op = "coreaudio_unlock",
                            !.emul = [by |-> "engine"]]

\* coreaudio_get_buffer_out between lock and unlock
EngGet ==
    /\ run.eng.pc = "get"
    /\ LET g == audio_generic_get_buffer_out(s.emul, BufSize, InfoShift)
       IN  /\ s' = [s EXCEPT !.emul = g.e]
           /\ run' = [run EXCEPT !.eng.pc = "unlock", !.eng.next = "clip",
                                 !.eng.buf = g.buf, !.eng.size = g.size]
           /\ obs' = [NoObs EXCEPT !.op = "audio_generic_get_buffer_out",
                                   !.size = g.size,
                                   !.emul = [by |-> "engine",
                                             access |-> TRUE]]

\* audio_pcm_hw_run_out clips decr frames into the buffer it was given
EngClip ==
    /\ run.eng.pc = "clip"
    /\ LET decr == audio_MIN(Shr(run.eng.size, InfoShift), run.eng.live)
       IN  /\ s' = [s EXCEPT !.emul = StoreBytes(s.emul, run.eng.buf[2],
                                                 Shl(decr, InfoShift))]
           /\ run' = [run EXCEPT !.eng.pc = "lock", !.eng.next = "put",
                                 !.eng.decr = decr]
           /\ obs' = [NoObs EXCEPT !.op = "audio_pcm_hw_clip_out",
                                   !.size = Shl(decr, InfoShift)]

\* coreaudio_put_buffer_out_nowrite between lock and unlock; after it the
\* loop of audio_pcm_hw_run_out goes on or ends
EngPut ==
    /\ run.eng.pc = "put"
    /\ LET size == Shl(run.eng.decr, InfoShift)
           p == audio_generic_put_buffer_out_nowrite(s.emul, run.eng.buf,
                                                     size)
           proc == Shr(p.ret, InfoShift)
           live == run.eng.live - proc
       IN  /\ s' = [s EXCEPT !.emul = p.e]
           /\ run' = IF ~p.asserted
                     THEN [run EXCEPT !.eng.pc = "aborted"]
                     ELSE [run EXCEPT !.eng.pc = "unlock",
                                      !.eng.next =
                                          IF proc = 0 \/ proc < run.eng.decr
                                             \/ live = 0
                                          THEN "idle" ELSE "lock_get",
                                      !.eng.live = live]
           /\ obs' = [NoObs EXCEPT
                          !.op = "audio_generic_put_buffer_out_nowrite",
                          !.size = size,
                          !.emul = [by |-> "engine", access |-> TRUE,
                                    asserted |-> p.asserted]]

\* the next round of the loop of audio_pcm_hw_run_out
EngAgain ==
    /\ run.eng.pc = "lock_get"
    /\ run' = [run EXCEPT !.eng.pc = "lock", !.eng.next = "get"]
    /\ obs' = [NoObs EXCEPT !.op = "audio_pcm_hw_run_out",
                            !.live = run.eng.live]
    /\ UNCHANGED s

\* audio_generic_write inside coreaudio_write, which holds the mutex:
\* pcm_ops->get_buffer_out is coreaudio_get_buffer_out and locks again.
\* On an error the wrapper returns 0 and leaves *size as it was, the
\* uninitialised dst_size
EngWriteGet(outcome, dst_size) ==
    /\ run.eng.pc = "w_get"
    /\ LET g == audio_generic_get_buffer_out(s.emul, BufSize, InfoShift)
           o == [NoObs EXCEPT !.op = "coreaudio_lock",
                              !.emul = [by |-> "engine",
                                        outcome |-> outcome]]
       IN  CASE outcome = "blocked" ->
                   /\ run' = [run EXCEPT !.eng.pc = "deadlocked"]
                   /\ obs' = o
                   /\ dst_size = 0
                   /\ UNCHANGED s
             [] outcome = "error" ->
                   /\ run' = [run EXCEPT !.eng.pc = "w_put",
                                         !.eng.buf = <<"null", 0>>,
                                         !.eng.decr = dst_size]
                   /\ obs' = o
                   /\ UNCHANGED s
             [] outcome = "acquired" ->
                   /\ s' = [s EXCEPT !.emul = g.e]
                   /\ run' = [run EXCEPT !.eng.pc = "w_put",
                                         !.eng.buf = g.buf,
                                         !.eng.decr = g.size]
                   /\ obs' = [o EXCEPT !.emul = [by |-> "engine",
                                                 outcome |-> outcome,
                                                 access |-> TRUE]]
                   /\ dst_size = 0

\* the rest of audio_generic_write: the memcpy to dst, then
\* pcm_ops->put_buffer_out, which is coreaudio_put_buffer_out_nowrite and
\* locks again; it is given the caller's buf, which is no pointer into
\* buf_emul, allocated or not
EngWritePut(outcome) ==
    /\ run.eng.pc = "w_put"
    /\ LET copy_size == audio_MIN(run.eng.size, run.eng.decr)
           null == run.eng.buf[1] = "null"
           e1 == IF null THEN s.emul
                 ELSE StoreBytes(s.emul, run.eng.buf[2], copy_size)
           p == IF e1 = <<>> THEN [e |-> e1, asserted |-> FALSE]
                ELSE audio_generic_put_buffer_out_nowrite(e1, <<"buf", 0>>,
                                                          copy_size)
           o == [NoObs EXCEPT !.op = "coreaudio_lock", !.size = copy_size,
                              !.emul = [by |-> "engine",
                                        outcome |-> outcome]]
       IN  IF null /\ copy_size > 0
           THEN /\ run' = [run EXCEPT !.eng.pc = "aborted"]
                /\ obs' = [NoObs EXCEPT !.op = "memcpy",
                                        !.size = copy_size]
                /\ outcome = "blocked"
                /\ UNCHANGED s
           ELSE CASE outcome = "blocked" ->
                       /\ s' = [s EXCEPT !.emul = e1]
                       /\ run' = [run EXCEPT !.eng.pc = "deadlocked"]
                       /\ obs' = o
                  [] outcome = "error" ->
                       /\ s' = [s EXCEPT !.emul = e1]
                       /\ run' = [run EXCEPT !.eng.pc = "unlock",
                                             !.eng.next = "idle"]
                       /\ obs' = o
                  [] outcome = "acquired" ->
                       /\ s' = [s EXCEPT !.emul = p.e]
                       /\ run' = IF p.asserted
                                 THEN [run EXCEPT !.eng.pc = "unlock",
                                                  !.eng.next = "idle"]
                                 ELSE [run EXCEPT !.eng.pc = "aborted"]
                       /\ obs' = [o EXCEPT !.emul = [by |-> "engine",
                                                     outcome |-> outcome,
                                                     access |-> TRUE,
                                                     asserted |-> p.asserted]]

\* audioDeviceIOProc, called by CoreAudio in its I/O thread: coreaudio_lock
IoLock ==
    /\ CoreLive
    /\ run.io.pc = "idle"
    /\ s.mutex = "free"
    /\ s' = [s EXCEPT !.mutex = "io"]
    /\ run' = [run EXCEPT !.io.pc = "check"]
    /\ obs' = [NoObs EXCEPT !.op = "coreaudio_lock", !.emul = [by |-> "io"]]

\* audioDeviceIOProc: with too few frames pending it unlocks and returns
IoCheck ==
    /\ CoreLive
    /\ run.io.pc = "check"
    /\ LET frameCount == audioDevicePropertyBufferFrameSize
           pending_frames == Shr(CorePending(s.emul), InfoShift)
       IN  IF pending_frames < frameCount
           THEN /\ s' = [s EXCEPT !.mutex = "free"]
                /\ run' = [run EXCEPT !.io.pc = "idle"]
                /\ obs' = [NoObs EXCEPT !.op = "audioDeviceIOProc",
                                        !.emul = [by |-> "io",
                                                  access |-> TRUE,
                                                  short |-> TRUE,
                                                  written |-> <<>>,
                                                  before |->
                                                    CorePending(s.emul)]]
           ELSE /\ s' = s
                /\ run' = [run EXCEPT !.io.pc = "copy",
                                      !.io.len = Shl(frameCount, InfoShift),
                                      !.io.out = <<>>,
                                      !.io.before = s.emul.pending]
                /\ obs' = [NoObs EXCEPT !.op = "audioDeviceIOProc_check",
                                        !.emul = [by |-> "io",
                                                  access |-> TRUE]]

\* audioDeviceIOProc: one round of the copy loop
IoCopy ==
    /\ CoreLive
    /\ run.io.pc = "copy"
    /\ run.io.len > 0
    /\ LET c == audioDeviceIOProc_copy(s.emul, run.io.len)
       IN  /\ s' = [s EXCEPT !.emul = c.e]
           /\ run' = IF c.asserted
                     THEN [run EXCEPT !.io.len = c.len,
                                      !.io.out = run.io.out \o c.out]
                     ELSE [run EXCEPT !.eng.pc = "aborted"]
           /\ obs' = [NoObs EXCEPT !.op = "audioDeviceIOProc_copy",
                                   !.emul = [by |-> "io", access |-> TRUE,
                                             asserted |-> c.asserted,
                                             copied |-> c.out]]

\* audioDeviceIOProc: the loop is over, coreaudio_unlock and return
IoUnlock ==
    /\ CoreLive
    /\ run.io.pc = "copy"
    /\ run.io.len = 0
    /\ s' = [s EXCEPT !.mutex = "free"]
    /\ run' = [run EXCEPT !.io.pc = "idle", !.io.out = <<>>,
                          !.io.before = 0]
    /\ obs' = [NoObs EXCEPT !.op = "audioDeviceIOProc",
                            !.emul = [by |-> "io", short |-> FALSE,
                                      written |-> run.io.out,
                                      before |-> run.io.before]]

\* SpecCore: the engine thread and the I/O thread of one coreaudio voice
InitCore ==
    /\ s \in {CoreState(TRUE), CoreState(FALSE)}
    /\ run = CoreIdle
    /\ obs = NoObs

NextCore ==
    \/ \E live \in 1..BufSize : EngRunOut(live)
    \/ \E size \in WriteSizes : EngWrite(size)
    \/ EngLock
    \/ EngUnlock
    \/ EngGet
    \/ EngClip
    \/ EngPut
    \/ EngAgain
    \/ \E o \in RelockOutcomes, d \in WriteSizes : EngWriteGet(o, d)
    \/ \E o \in RelockOutcomes : EngWritePut(o)
    \/ IoLock
    \/ IoCheck
    \/ IoCopy
    \/ IoUnlock

SpecCore == InitCore /\ [][NextCore]_vars

(* -------------------------- legacy conversions ------------------------ *)
\* opts as [freq, channels, format]: the options the environment variables
\* were turned into; format is "" when the option is not set, else one of
\* the strings transform_val returns for a format
LegacyFormats == {"u8", "s8", "u16", "s16", "u32", "s32"}

\* toull: the number a string of decimal digits stands for, -1 when
\* parse_uint_full fails and toull ends the program with exit(1)
toull(val) ==
    CASE val = "8" -> 8
      [] val = "16" -> 16
      [] val = "32" -> 32
      [] OTHER -> -1

frames_to_usecs(opts, frames) ==
    (frames * 1000000 + opts.freq \div 2) \div opts.freq

samples_to_usecs(opts, samples) ==
    frames_to_usecs(opts, samples \div opts.channels)

\* bytes_to_usecs: -1 when toull ends the program
bytes_to_usecs(opts, bytes) ==
    LET bits == IF opts.format # "" THEN toull(opts.format) ELSE 16
        bytes_per_sample == bits \div 8
    IN  IF bits = -1 THEN -1
        ELSE samples_to_usecs(opts, bytes * bytes_per_sample)

audioformat_bytes_per_sample(fmt) ==
    CASE fmt \in {"u8", "s8"} -> 1
      [] fmt \in {"u16", "s16"} -> 2
      [] fmt \in {"u32", "s32"} -> 4

\* audio_buffer_frames with pdo->buffer_len = usecs
audio_buffer_frames(usecs, as) == (as.freq * usecs + 500000) \div 1000000

audio_buffer_samples(usecs, as) ==
    as.nchannels * audio_buffer_frames(usecs, as)

audio_buffer_bytes(usecs, as) ==
    audio_buffer_samples(usecs, as) * audioformat_bytes_per_sample(as.fmt)

\* the audsettings the options stand for: 16 bit signed when no format is
\* given
LegacySettings(opts) ==
    [freq |-> opts.freq, nchannels |-> opts.channels,
     fmt |-> IF opts.format = "" THEN "s16" ELSE opts.format]

LegacyOpts ==
    [freq : {8000, 44100, 48000}, channels : {1, 2},
     format : {""} \cup LegacyFormats]

\* a buffer size in bytes goes to microseconds and back
LegacyBytes(bytes) ==
    /\ LET usecs == bytes_to_usecs(s.opts, bytes)
       IN  obs' = [NoObs EXCEPT
                      !.op = "bytes_to_usecs", !.size = bytes,
                      !.played = usecs,
                      !.ret = IF usecs = -1 THEN -1
                              ELSE audio_buffer_bytes(
                                       usecs, LegacySettings(s.opts))]
    /\ UNCHANGED <<s, run>>

\* a buffer size in frames goes to microseconds and back
LegacyFrames(frames) ==
    /\ LET usecs == frames_to_usecs(s.opts, frames)
       IN  obs' = [NoObs EXCEPT
                      !.op = "frames_to_usecs", !.size = frames,
                      !.played = usecs,
                      !.ret = audio_buffer_frames(usecs,
                                                  LegacySettings(s.opts))]
    /\ UNCHANGED <<s, run>>

InitLegacy ==
    /\ s \in [opts : LegacyOpts]
    /\ run = Idle
    /\ obs = NoObs

NextLegacy ==
    \/ \E bytes \in 0..MaxLegacy : LegacyBytes(bytes)
    \/ \E frames \in 0..MaxLegacy : LegacyFrames(frames)

SpecLegacy == InitLegacy /\ [][NextLegacy]_vars

(* ------------------------------ PCM info ------------------------------ *)
\* int is kept with IntBits bits
INT_MAX == 2^(IntBits - 1) - 1
IntRange == (-(INT_MAX + 1))..INT_MAX

\* x << n on an int x > 0: the product when it fits; the shift is undefined
\* when it does not, and the build may leave any int
IntShlOutcomes(x, n) == IF x * 2^n <= INT_MAX THEN {x * 2^n} ELSE IntRange

\* a & b on non-negative integers
RECURSIVE BitAnd(_, _)
BitAnd(a, b) ==
    IF a = 0 \/ b = 0 THEN 0
    ELSE (a % 2) * (b % 2) + 2 * BitAnd(a \div 2, b \div 2)

\* audio_pcm_init_info that takes the shift of the sample format alone
audio_pcm_init_info_mono_shift(as, host, bps) ==
    LET sign == IF as.fmt \in {"S8", "S16", "S32"} THEN 1 ELSE 0
        bits == IF as.fmt \in {"S8", "U8"} THEN 8
                ELSE IF as.fmt \in {"S16", "U16"} THEN 16 ELSE 32
        shift == IF as.fmt \in {"S8", "U8"} THEN 0
                 ELSE IF as.fmt \in {"S16", "U16"} THEN 1 ELSE 2
    IN  [freq |-> as.freq, bits |-> bits, sign |-> sign,
         nchannels |-> as.nchannels, shift |-> shift,
         align |-> Shl(1, shift) - 1, bytes_per_second |-> bps,
         swap_endianness |-> IF as.endianness # host THEN 1 ELSE 0]

\* audio_pcm_init_info on valid settings as: the info it fills in.  host is
\* AUDIO_HOST_ENDIANNESS, bps the value the build gives info->freq <<
\* info->shift
audio_pcm_init_info(as, host, bps) ==
    LET sign == IF as.fmt \in {"S8", "S16", "S32"} THEN 1 ELSE 0
        bits == IF as.fmt \in {"S8", "U8"} THEN 8
                ELSE IF as.fmt \in {"S16", "U16"} THEN 16 ELSE 32
        shift == IF as.fmt \in {"S8", "U8"} THEN 0
                 ELSE IF as.fmt \in {"S16", "U16"} THEN 1 ELSE 2
    IN  [freq |-> as.freq, bits |-> bits, sign |-> sign,
         nchannels |-> as.nchannels,
         shift |-> (IF as.nchannels = 2 THEN 1 ELSE 0) + shift,
         align |-> Shl(1, (IF as.nchannels = 2 THEN 1 ELSE 0) + shift) - 1,
         bytes_per_second |-> bps,
         swap_endianness |-> IF as.endianness # host THEN 1 ELSE 0]

\* the settings audio_pcm_init_info is called with: the ones that
\* audio_validate_settings lets pass, with low frequencies, the highest one
\* and the ones next to where freq << 3 leaves int
InfoSettings ==
    {as \in [nchannels : {1, 2}, endianness : {0, 1}, fmt : Formats,
             freq : {1, INT_MAX \div 8, (INT_MAX \div 8) + 1, INT_MAX}] :
        audio_validate_settings(as) = 0}

\* byte counts converted to frames and back
ConvertSizes == 0..Shl(BufSize, 3)

\* audio_pcm_init_info is called on the settings of the stream
InitInfo(bps) ==
    /\ s.info = <<>>
    /\ LET info == audio_pcm_init_info(s.as, s.host, bps)
       IN  /\ bps \in IntShlOutcomes(info.freq, info.shift)
           /\ s' = [s EXCEPT !.info = info]
    /\ obs' = [NoObs EXCEPT !.op = "audio_pcm_init_info"]
    /\ UNCHANGED run

\* a byte count is converted to frames (size >> info.shift, in obs.ret) and
\* the frames back to bytes (<< info.shift, in obs.offered)
Convert(size) ==
    /\ s.info # <<>>
    /\ obs' = [NoObs EXCEPT !.op = "convert", !.size = size,
                            !.ret = Shr(size, s.info.shift),
                            !.offered = Shl(Shr(size, s.info.shift),
                                            s.info.shift)]
    /\ UNCHANGED <<s, run>>

\* SpecInfo: audio_pcm_init_info alone, on a host of either endianness
InitInfoSpec ==
    /\ s \in {[as |-> as, host |-> host, info |-> <<>>] :
                 as \in InfoSettings, host \in {0, 1}}
    /\ run = Idle
    /\ obs = NoObs

NextInfo ==
    \/ \E bps \in IntRange : InitInfo(bps)
    \/ \E size \in ConvertSizes : Convert(size)

SpecInfo == InitInfoSpec /\ [][NextInfo]_vars

(* ------------------------------ start-up ------------------------------ *)
\* the driver table; the name AudiodevDriver_lookup may give for a driver
\* that is not in the table
drvtab == <<"spice", "coreaudio", "none", "wav">>
DriverNames == Range(drvtab) \cup {"alsa"}

\* the drivers whose init may return NULL (no_audio_init never does)
MayFail == Range(drvtab) \ {"none"}

\* audio_driver_init: drv->init gives NULL for the drivers in `fails`;
\* `inits` lists the drivers whose init was called
audio_driver_init(st, drv, fails) ==
    IF drv \notin fails
    THEN [st |-> [st EXCEPT !.drv = drv, !.inits = Append(@, drv)],
          ret |-> 0]
    ELSE [st |-> [st EXCEPT !.inits = Append(@, drv)], ret |-> -1]

\* the loop of audio_init over drvtab when no driver was named: the drivers
\* that have options are tried in the order of the table
RECURSIVE InitLoop(_, _, _, _, _)
InitLoop(st, i, done, opts, fails) ==
    IF done \/ i > Len(drvtab) THEN [st |-> st, done |-> done]
    ELSE IF drvtab[i] \in opts
         THEN LET r == audio_driver_init(st, drvtab[i], fails)
              IN  InitLoop(r.st, i + 1, r.ret = 0, opts, fails)
         ELSE InitLoop(st, i + 1, done, opts, fails)

\* the AudioState audio_init allocates
NewAudioState(voices_out, voices_in) ==
    [drv |-> "", inits |-> <<>>,
     nb_hw_voices_out |-> IF voices_out <= 0 THEN 1 ELSE voices_out,
     nb_hw_voices_in |-> IF voices_in <= 0 THEN 0 ELSE voices_in]

\* audio_init without the fallback to the `none' driver
audio_init_no_fallback(g, in) ==
    IF in.drvname = "" /\ g.audio_states # <<>>
    THEN IF ~g.legacy_config
         THEN [g |-> g, returned |-> FALSE, created |-> FALSE, ret |-> <<>>]
         ELSE [g |-> g, returned |-> TRUE, created |-> FALSE,
               ret |-> Head(g.audio_states)]
    ELSE LET s0 == NewAudioState(in.voices_out, in.voices_in)
             r1 == IF in.drvname # ""
                   THEN IF in.drvname \in Range(drvtab)
                        THEN LET r == audio_driver_init(s0, in.drvname,
                                                        in.fails)
                             IN  [st |-> r.st, done |-> r.ret = 0]
                        ELSE [st |-> s0, done |-> FALSE]
                   ELSE InitLoop(s0, 1, FALSE, in.opts, in.fails)
         IN  [g |-> [g EXCEPT !.audio_states = Append(@, r1.st),
                              !.legacy_config = (@ \/ in.drvname = "")],
              returned |-> TRUE, created |-> TRUE, ret |-> r1.st]

\* audio_init on the globals g = [audio_states, legacy_config].  in.drvname
\* is the name of the driver of dev, "" when dev is NULL; in.opts are the
\* drivers the legacy options name, in.fails the drivers whose init fails.
\* The result: the globals, whether the call returns (exit and hw_error do
\* not), whether it created a state, and the state it returns
audio_init(g, in) ==
    IF in.drvname = "" /\ g.audio_states # <<>>
    THEN IF ~g.legacy_config
         THEN [g |-> g, returned |-> FALSE, created |-> FALSE, ret |-> <<>>]
         ELSE [g |-> g, returned |-> TRUE, created |-> FALSE,
               ret |-> Head(g.audio_states)]
    ELSE LET s0 == NewAudioState(in.voices_out, in.voices_in)
             r1 == IF in.drvname # ""
                   THEN IF in.drvname \in Range(drvtab)
                        THEN LET r == audio_driver_init(s0, in.drvname,
                                                        in.fails)
                             IN  [st |-> r.st, done |-> r.ret = 0]
                        ELSE [st |-> s0, done |-> FALSE]
                   ELSE InitLoop(s0, 1, FALSE, in.opts, in.fails)
             r2 == IF ~r1.done
                   THEN LET r == audio_driver_init(r1.st, "none", in.fails)
                        IN  [st |-> r.st, done |-> r.ret = 0]
                   ELSE r1
         IN  IF ~r2.done
             THEN [g |-> [g EXCEPT !.audio_states = Append(@, r2.st),
                                   !.legacy_config = (@ \/ in.drvname = "")],
                   returned |-> FALSE, created |-> TRUE, ret |-> <<>>]
             ELSE [g |-> [g EXCEPT !.audio_states = Append(@, r2.st),
                                   !.legacy_config = (@ \/ in.drvname = "")],
                   returned |-> TRUE, created |-> TRUE, ret |-> r2.st]

\* the most AudioStates the model creates
MaxStates == 2

\* what audio_init is called with
InitInputs ==
    [drvname : DriverNames \cup {""},
     opts : {{}, {"spice"}, {"spice", "wav"}, {"coreaudio", "none"}},
     fails : SUBSET MayFail,
     voices_out : {0, 1}, voices_in : {0}]

\* audio_init is called: for an -audiodev option, or when a card registers
\* and dev is NULL
AudioInit(in) ==
    /\ ~s.exited
    /\ Len(s.audio_states) < MaxStates
    /\ in.drvname # "" => in.opts = {}
    /\ LET r == audio_init([audio_states |-> s.audio_states,
                            legacy_config |-> s.legacy_config], in)
       IN  /\ s' = [audio_states |-> r.g.audio_states,
                    legacy_config |-> r.g.legacy_config,
                    exited |-> ~r.returned]
           /\ obs' = [NoObs EXCEPT !.op = "audio_init", !.as = in,
                                   !.on = IF r.created THEN 1 ELSE 0,
                                   !.ret = IF r.returned THEN 1 ELSE 0,
                                   !.fail = r.ret]
    /\ UNCHANGED run

\* SpecInit: start-up.  audio_init is called for -audiodev options and for
\* cards that register without a state.
InitInit ==
    /\ s = [audio_states |-> <<>>, legacy_config |-> FALSE, exited |-> FALSE]
    /\ run = Idle
    /\ obs = NoObs

NextInit == \E in \in InitInputs : AudioInit(in)

SpecInit == InitInit /\ [][NextInit]_vars

(* ------------------------------- claims ------------------------------- *)
\* the voices of hardware voice h that are active or not empty
LiveVoices(st, h) ==
    {w \in Range(st.hw[h].sws) : st.sw[w].active # 0 \/ ~st.sw[w].empty}

SetActiveOps == {"AUD_set_active_out", "cb_AUD_set_active_out"}

\* C1: the mixed counter of every playback software voice, device voice or
\* capture tap, stays within 0 .. capacity of the mix buffer it is mixed
\* into, whatever writes, activations and runs happened (a counter that
\* wrapped below zero is a huge one)
C1_MixedWithinCapacity ==
    /\ \A w \in SW : s.sw[w].open =>
           /\ 0 <= s.sw[w].mixed
           /\ s.sw[w].mixed <= s.hw[s.sw[w].hw].samples
    /\ \A c \in Range(s.caplist) : \A h \in Range(s.cap[c].sws) :
           /\ 0 <= s.tap[h][c].mixed
           /\ s.tap[h][c].mixed <= s.cap[c].samples

\* a pass has drained frames from under a voice that filled the buffer,
\* while another voice is full
C1_Witness ==
    /\ obs.op = "run_out_sw"
    /\ obs.played > 0
    /\ \E w \in SW : s.sw[w].mixed = s.hw[1].samples
    /\ \E w \in SW : s.sw[w].active # 0 /\ s.sw[w].mixed = 0

\* C2: switching off the only active voice of an enabled hardware voice
\* sets pending_disable, leaves the hardware voice enabled and calls no
\* ctl_out; ctl_out(VOICE_DISABLE) comes only from an audio_run_out pass
\* that finds pending_disable set and no voice active or not empty
C2_DeferredDisable ==
    [][/\ (/\ obs'.op \in SetActiveOps
           /\ obs'.on = 0
           /\ s.hw[obs'.h].enabled = 1
           /\ {w \in Range(s.hw[obs'.h].sws) : s.sw[w].active # 0}
                  = {obs'.w})
          => /\ s'.hw[obs'.h].pending_disable = 1
             /\ s'.hw[obs'.h].enabled = 1
             /\ s'.ctl = <<>>
       /\ \A h \in HW :
              (\E i \in 1..Len(s'.ctl) : s'.ctl[i] = <<h, VOICE_DISABLE>>)
              => /\ obs'.op = "run_out_disable"
                 /\ s.hw[h].pending_disable = 1
                 /\ LiveVoices(s, h) = {}
                 /\ s.hw[h].enabled = 1
                 /\ s'.hw[h].enabled = 0]_vars

\* the only active voice was switched off while frames are still mixed
C2_Witness ==
    /\ obs.op = "AUD_set_active_out"
    /\ obs.on = 0
    /\ obs.pre_active = 1
    /\ s.hw[obs.h].pending_disable = 1
    /\ s.hw[obs.h].enabled = 1
    /\ s.sw[obs.w].mixed > 0

\* C3: switching on an inactive voice takes effect in the call: the
\* hardware voice is enabled with no disable pending, the voice is active
\* and so is every tap of the hardware voice; ctl_out(VOICE_ENABLE) is
\* called in it exactly when the hardware voice was disabled before and the
\* VM is running, and no other ctl_out: cancelling a pending disable calls
\* none
C3_ImmediateEnable ==
    [][(/\ obs'.op \in SetActiveOps
        /\ obs'.on = 1
        /\ s.sw[obs'.w].active = 0)
       => /\ s'.hw[obs'.h].enabled = 1
          /\ s'.hw[obs'.h].pending_disable = 0
          /\ s'.sw[obs'.w].active = 1
          /\ \A c \in Range(s'.hw[obs'.h].caps) :
                 s'.tap[obs'.h][c].active = 1
          /\ s'.ctl = IF s.hw[obs'.h].enabled = 0 /\ s.vm_running
                      THEN << <<obs'.h, VOICE_ENABLE>> >>
                      ELSE <<>>]_vars

\* a voice was switched on again while the disable of its tapped hardware
\* voice was pending
C3_Witness ==
    /\ obs.op = "AUD_set_active_out"
    /\ obs.on = 1
    /\ obs.pre_active = 0
    /\ obs.pre_pending = 1
    /\ s.hw[obs.h].pending_disable = 0
    /\ s.hw[obs.h].caps # <<>>
    /\ s.ctl = <<>>

\* C4: the frames a pass of audio_run_out offers to the backend and the
\* frames the backend drains never exceed the mixed counter of any voice
\* that is active or not empty when the pass starts: an active voice that
\* has deposited nothing makes the pass drain nothing
C4_DrainBoundedByLive ==
    [][obs'.op = "run_out_hw" =>
          /\ \A w \in LiveVoices(s, obs'.h) :
                 /\ obs'.offered <= s.sw[w].mixed
                 /\ obs'.drained <= s.sw[w].mixed
          /\ obs'.drained <= obs'.offered
          /\ s'.hw[obs'.h].pos =
                 (s.hw[obs'.h].pos + obs'.drained) % s.hw[obs'.h].samples
          /\ run'.drained = obs'.drained]_vars

\* a pass drained what the slowest live voice had, less than another has
C4_Witness ==
    /\ obs.op = "run_out_hw"
    /\ obs.drained > 0
    /\ obs.nb_live >= 2
    /\ \E w \in SW : s.sw[w].mixed > obs.drained

\* C5: when a pass of audio_run_out has drained P frames, the per-voice
\* loop decreases the counter of every voice that is active or not empty by
\* min(P, counter), whatever the voices before it in the list held
C5_DecrementExact ==
    [][(/\ run.pc = "sw"
        /\ run.dec
        /\ run'.pc \in {"sw", "cb"}
        /\ run.swq # <<>>
        /\ Head(run.swq) \in LiveVoices(s, run.h))
       => s'.sw[Head(run.swq)].mixed =
              s.sw[Head(run.swq)].mixed
                  - audio_MIN(run.drained, s.sw[Head(run.swq)].mixed)]_vars

\* C6: the byte counts that successive calls of audio_pcm_sw_write on one
\* voice return, with nothing draining the mix buffer, add up to at most
\* the capacity of the mix buffer in bytes of the voice's format, for every
\* ratio
C6_SumWithinCapacity ==
    s.sum <= Shl(s.samples, s.v.shift)

\* C6, amended: the sum stays within the capacity in bytes when the rate of
\* the voice does not exceed the rate of the mix buffer (ratio >= 1); for
\* every ratio it stays within the capacity converted to frames of the
\* voice, plus the one frame the rate converter holds back, in bytes
C6_SumWithinConvertedCapacity ==
    /\ s.v.ratio >= FracOne => s.sum <= Shl(s.samples, s.v.shift)
    /\ s.sum <= Shl((Shl(s.samples, FracBits) \div s.v.ratio) + 1, s.v.shift)

\* a voice of half the rate of the mix buffer filled the buffer in several
\* calls and the latest call was refused
C6_Witness ==
    /\ obs.op = "audio_pcm_sw_write"
    /\ obs.size > 0
    /\ obs.ret = 0
    /\ s.v.ratio > FracOne
    /\ s.v.mixed = s.samples
    /\ s.samples > 2
    /\ s.sum > 0

\* C7: a registered capture sink is enabled exactly when one of the taps
\* attached to it is active
C7_SinkEnabledIffActiveTap ==
    \A c \in Range(s.caplist) :
        s.cap[c].enabled = 1 <=> ActiveTaps(s, c) # {}

\* a pass disabled a hardware voice whose tap was not the last active tap
\* of a sink
C7_Witness ==
    /\ obs.op = "run_out_disable"
    /\ \E c \in Range(s.hw[obs.h].caps) :
           /\ s.tap[obs.h][c].active = 0
           /\ s.cap[c].enabled = 1
           /\ Cardinality(Range(s.cap[c].sws)) = 2

\* the notifications in `notes` alternate for every callback, starting from
\* the latest notification each callback got before
RECURSIVE Alternates(_, _)
Alternates(last, notes) ==
    IF notes = <<>> THEN TRUE
    ELSE LET c == Head(notes)[1]
             cb == Head(notes)[2]
             cmd == Head(notes)[3]
         IN  /\ last[c][cb] # <<cmd>>
             /\ Alternates([last EXCEPT ![c][cb] = <<cmd>>], Tail(notes))

\* C8: in every step the callbacks of a sink are notified exactly for the
\* changes of the number of its active taps between zero and non-zero, in
\* their order, with ENABLE for a change from zero and DISABLE for a change
\* to zero; the notifications one callback gets alternate
C8_NotifyOnTransitions ==
    [][/\ s'.notes = s'.trans
       /\ Alternates([c \in CAP |-> [b \in CB |->
                         IF b \in Range(s.cap[c].cbs) /\ c \in Range(s.caplist)
                         THEN s.lastnote[c][b] ELSE <<>>]],
                     s'.notes)]_vars

\* a second hardware voice was enabled under a sink that had an active tap
\* and a callback: nobody was notified
C8_Witness ==
    /\ obs.op = "AUD_set_active_out"
    /\ obs.on = 1
    /\ obs.pre_enabled = 0
    /\ s.notes = <<>>
    /\ \E c \in Range(s.hw[obs.h].caps) :
           /\ s.cap[c].cbs # <<>>
           /\ Cardinality(ActiveTaps(s, c)) = 2

\* C9: a pass of audio_run_in pulls at most as many frames from the backend
\* as the conversion buffer has free when the pass starts, so that
\* total_samples_captured is within the capacity after the pass
C9_PullWithinFree ==
    obs.op = "audio_run_in" =>
        /\ obs.captured <= obs.free
        /\ s.hwin.total_samples_captured <= s.hwin.size

\* C10: for every software voice of the capture hardware voice, active or
\* not, total_samples_captured - total_hw_samples_acquired is within
\* 0 .. capacity of the conversion buffer (a counter that wrapped below zero
\* shows as a huge difference)
C10_LiveInWithinCapacity ==
    run.pc = "idle" =>
        \A w \in Range(s.hwin.sws) :
            USub(s.hwin.total_samples_captured, s.swin[w].acquired)
                <= s.hwin.size

\* the active software voices of the capture hardware voice
ActiveIn(st) == {w \in Range(st.hwin.sws) : st.swin[w].active # 0}

C12_WriteContract ==
    [][obs'.op = "audio_pcm_sw_write" =>
          LET n == Len(obs'.slots)
          IN  /\ Shl(Shr(obs'.ret, s.v.shift), s.v.shift) = obs'.ret
              /\ obs'.ret <= obs'.size
              /\ s.v.mixed = s.samples => (obs'.ret = 0 /\ s'.v = s.v)
              /\ n <= s.samples - s.v.mixed
              /\ s'.v.mixed = s.v.mixed + n
              /\ \A i \in 1..n :
                     obs'.slots[i] = (s.pos + s.v.mixed + i - 1) % s.samples
              /\ s'.pos = s.pos
              /\ s'.samples = s.samples
              /\ s.v.mixed < s.samples =>
                     s'.v.empty = (s'.v.mixed = 0)]_vars

\* a call on a voice that had frames mixed already mixed frames up to the
\* end of the mix buffer and on from its start
C12_Witness ==
    /\ obs.op = "audio_pcm_sw_write"
    /\ Len(obs.slots) >= 2
    /\ obs.slots[1] > obs.slots[Len(obs.slots)]
    /\ s.v.mixed > Len(obs.slots)
    /\ obs.ret < obs.size

ReadOps == {"AUD_read", "cb_AUD_read"}

\* C13: audio_pcm_sw_read returns a whole number of frames of the voice,
\* at most `size` bytes, and 0 when the voice has no live frames; it
\* advances total_hw_samples_acquired by exactly the frames of the
\* conversion buffer it consumed, which are never more than live, and it
\* touches nothing of the hardware voice
C13_ReadContract ==
    [][(obs'.op \in ReadOps /\ s.hwin.enabled = 1) =>
          LET v == s.swin[obs'.w]
              live == USub(s.hwin.total_samples_captured, v.acquired)
          IN  /\ Shl(Shr(obs'.ret, v.shift), v.shift) = obs'.ret
              /\ obs'.ret <= obs'.size
              /\ live = 0 => obs'.ret = 0
              /\ s'.swin[obs'.w].acquired =
                     (v.acquired + obs'.consumed) % (SIZE_MAX + 1)
              /\ obs'.consumed <= live
              /\ s'.hwin = s.hwin]_vars

\* a read converted down: it returned fewer frames than it consumed and
\* left live frames behind
C13_Witness ==
    /\ obs.op \in ReadOps
    /\ obs.consumed >= 2
    /\ 0 < obs.ret
    /\ obs.ret < Shl(obs.consumed, s.swin[obs.w].shift)
    /\ obs.ret < obs.size
    /\ s.swin[obs.w].acquired < s.hwin.total_samples_captured

\* C14: in a pass of audio_run_out that ran the backend on a hardware
\* voice, the per-voice loop visits every attached voice once, and in its
\* turn a voice gets one callback when it is active and has free space, with
\* ((capacity - total_hw_samples_mixed) << 32) / ratio << shift taken after
\* the decrement as argument ((capacity - mixed) << shift for equal rates);
\* an inactive voice and a voice with no free space get none
C14_CallbackWithFree ==
    [][/\ (obs'.op = "run_out_hw" /\ obs'.live > 0) =>
           /\ run'.swq = s.hw[obs'.h].sws
           /\ Cardinality(Range(run'.swq)) = Len(run'.swq)
       /\ obs'.op = "run_out_sw" =>
           LET w == obs'.w
               v == s'.sw[w]
               free == Shl(Shl(s.hw[obs'.h].samples - v.mixed, FracBits)
                               \div v.ratio, v.shift)
           IN  /\ w = Head(run.swq)
               /\ run'.swq = Tail(run.swq)
               /\ run'.pc = "cb" <=> (s.sw[w].active # 0 /\ free > 0)
               /\ run'.pc = "cb" => (run'.free = free /\ run'.w = w)
               /\ v.ratio = FracOne =>
                      free = Shl(s.hw[obs'.h].samples - v.mixed, v.shift)
       /\ (run.pc = "cb" /\ run'.pc = "cb") => run' = run]_vars

\* a pass drained some of the frames of an active voice and the callback
\* of the voice is called with the space that is free after that
C14_Witness ==
    /\ obs.op = "run_out_sw"
    /\ run.pc = "cb"
    /\ obs.played > 0
    /\ s.sw[obs.w].mixed > 0
    /\ run.free = Shl(s.hw[obs.h].samples - s.sw[obs.w].mixed, InfoShift)
    /\ run.free > 0

\* C15: AUD_set_active_in(sw, 0) on an active voice of an enabled capture
\* hardware voice disables the hardware voice and calls
\* ctl_in(VOICE_DISABLE) in the call when the voice is the last active one;
\* when another voice is still active the hardware voice stays enabled and
\* no ctl_in is called
C15_ImmediateDisableIn ==
    [][(/\ obs'.op = "AUD_set_active_in"
        /\ obs'.on = 0
        /\ s.swin[obs'.w].active # 0
        /\ s.hwin.enabled = 1)
       => /\ s'.swin[obs'.w].active = 0
          /\ IF ActiveIn(s) = {obs'.w}
             THEN /\ s'.hwin.enabled = 0
                  /\ s'.ctl = << <<0, VOICE_DISABLE>> >>
             ELSE /\ s'.hwin.enabled = 1
                  /\ s'.ctl = <<>>]_vars

\* the last active voice was switched off with captured frames it had not
\* read: the hardware voice is disabled at once
C15_Witness ==
    /\ obs.op = "AUD_set_active_in"
    /\ obs.on = 0
    /\ obs.pre_active = 1
    /\ obs.pre_enabled = 1
    /\ s.hwin.enabled = 0
    /\ s.ctl = << <<0, VOICE_DISABLE>> >>
    /\ s.hwin.total_samples_captured > s.swin[obs.w].acquired
    /\ \E x \in INSW : x # obs.w /\ s.swin[x].acquired > 0

\* hardware voice h is enabled with its disable pending
PendingDisable(h) == s.hw[h].enabled = 1 /\ s.hw[h].pending_disable = 1

\* hardware voice h is disabled with no disable pending
Disabled(h) == s.hw[h].enabled = 0 /\ s.hw[h].pending_disable = 0

\* the latest step switched on a voice of hardware voice h
Reactivated(h) ==
    obs.op \in SetActiveOps /\ obs.h = h /\ obs.on = 1 /\ obs.pre_active = 0

\* the latest step wrote frames to a voice of hardware voice h
Written(h) ==
    obs.op \in {"AUD_write", "cb_AUD_write"} /\ obs.h = h /\ obs.ret > 0

\* ctl_out(VOICE_DISABLE) is called once in a step, on an enabled hardware
\* voice that the step disables, and when every voice of it has 0 frames
\* mixed
DisableOnceWhenDrained ==
    [][\A h \in HW :
          (\E i \in 1..Len(s'.ctl) : s'.ctl[i] = <<h, VOICE_DISABLE>>)
          => /\ Cardinality({i \in 1..Len(s'.ctl) :
                                s'.ctl[i] = <<h, VOICE_DISABLE>>}) = 1
             /\ s.hw[h].enabled = 1
             /\ s'.hw[h].enabled = 0
             /\ s'.hw[h].pending_disable = 0
             /\ \A w \in Range(s.hw[h].sws) : s.sw[w].mixed = 0]_vars

\* C16: once pending_disable is set on an enabled hardware voice and no
\* voice of it is switched on again, the hardware voice is eventually
\* disabled with no disable pending, when audio_run keeps being called and
\* the backend takes at least one frame whenever it is offered frames;
\* ctl_out(VOICE_DISABLE) is called once, and not before every voice of the
\* hardware voice has 0 frames mixed
C16_EventuallyDisabled ==
    /\ DisableOnceWhenDrained
    /\ \A h \in HW : [](PendingDisable(h) => <>(Disabled(h) \/ Reactivated(h)))

\* C16, amended: the same when, in addition, no device writes frames to a
\* voice of the hardware voice any more
C16_EventuallyDisabledUnlessWritten ==
    /\ DisableOnceWhenDrained
    /\ \A h \in HW :
           [](PendingDisable(h) =>
                 <>(Disabled(h) \/ Reactivated(h) \/ Written(h)))

\* a pass disabled a hardware voice whose disable had been pending over
\* passes that drained both voices
C16_Witness ==
    /\ obs.op = "run_out_disable"
    /\ Disabled(obs.h)
    /\ s.ctl = << <<obs.h, VOICE_DISABLE>> >>
    /\ \A w \in Range(s.hw[obs.h].sws) : s.sw[w].mixed = 0 /\ s.sw[w].empty

\* C17: when a pass of audio_run_out drains `played` > 0 frames from an
\* enabled hardware voice, total_hw_samples_mixed of every tap of the
\* hardware voice grows by `played` (the taps have the rate of the hardware
\* voice here), so that no drained frame is missing from the sink
C17_MirroredToTaps ==
    [][(obs'.op = "run_out_hw" /\ obs'.drained > 0) =>
          \A c \in Range(s.hw[obs'.h].caps) :
              s'.tap[obs'.h][c].mixed =
                  s.tap[obs'.h][c].mixed + obs'.drained]_vars

\* the taps of sink c that are active or not empty
LiveTaps(st, c) ==
    {h \in Range(st.cap[c].sws) :
        st.tap[h][c].active # 0 \/ ~st.tap[h][c].empty}

\* the byte counts callback cb was called with, in order
DeliveredTo(log, cb) ==
    LET sel == SelectSeq(log, LAMBDA d : d[1] = cb)
    IN  [i \in 1..Len(sel) |-> sel[i][2]]

\* the chunks are whole frames, lie end to end from pos on without
\* crossing the end of the buffer, and hold `live` frames in all
RECURSIVE ChunksFit(_, _, _, _, _)
ChunksFit(pos, samples, shift, live, chunks) ==
    IF chunks = <<>> THEN live = 0
    ELSE LET n == Shr(Head(chunks), shift)
         IN  /\ n > 0
             /\ Shl(n, shift) = Head(chunks)
             /\ pos + n <= samples
             /\ n <= live
             /\ ChunksFit((pos + n) % samples, samples, shift, live - n,
                          Tail(chunks))

\* C18: audio_run_capture takes from every sink live = the smallest
\* total_hw_samples_mixed of its taps that are active or not empty: every
\* registered callback is called with the same chunks in the same order,
\* the chunks do not cross the end of the mix buffer and add up to
\* live << shift bytes, mix_buf.pos of the sink advances by live modulo the
\* capacity, and the counter of every live tap goes down by live and not
\* below 0
C18_CaptureFanOut ==
    [][obs'.op = "audio_run_capture" =>
          \A c \in Range(s.caplist) :
              LET L == LiveTaps(s, c)
                  live == IF L = {} THEN 0
                          ELSE CHOOSE m \in {s.tap[h][c].mixed : h \in L} :
                                   \A h \in L : m <= s.tap[h][c].mixed
                  cap == s.cap[c]
              IN  /\ \A cb \in Range(cap.cbs) :
                         ChunksFit(cap.pos, cap.samples, cap.shift, live,
                                   DeliveredTo(s'.captured[c], cb))
                  /\ \A d \in Range(s'.captured[c]) : d[1] \in Range(cap.cbs)
                  /\ \A i \in 1..Len(s'.captured[c]) :
                         s'.captured[c][i][1] =
                             cap.cbs[((i - 1) % Len(cap.cbs)) + 1]
                  /\ s'.cap[c].pos = (cap.pos + live) % cap.samples
                  /\ \A h \in Range(cap.sws) :
                         /\ s'.tap[h][c].mixed =
                                IF h \in L THEN s.tap[h][c].mixed - live
                                ELSE s.tap[h][c].mixed
                         /\ s'.tap[h][c].mixed >= 0
                         /\ h \in L =>
                                s'.tap[h][c].empty = (s'.tap[h][c].mixed = 0)]_vars

\* a sink with two taps and two callbacks delivered frames that lie across
\* the end of its mix buffer: each callback got two chunks
C18_Witness ==
    /\ obs.op = "audio_run_capture"
    /\ \E c \in Range(s.caplist) :
           /\ Len(s.cap[c].cbs) = 2
           /\ Len(s.cap[c].sws) = 2
           /\ Len(s.captured[c]) = 4
           /\ s.cap[c].pos # 0

\* C19: the taps audio_attach_capture creates, also for a hardware voice
\* whose voices have frames mixed, start with total_hw_samples_mixed = 0,
\* empty and with active = hw.enabled; the counter of a tap grows only in a
\* pass of audio_run_out on its hardware voice and by no more than the pass
\* drained, so that a sink gets no frame that was drained before the attach
C19_TapStartsEmpty ==
    [][/\ (obs'.op = "AUD_add_capture" /\ obs'.h \notin Range(s.caplist)) =>
           \A h \in Range(s'.hwlist) :
               /\ obs'.h \in Range(s'.hw[h].caps)
               /\ \A c \in Range(s'.hw[h].caps) :
                      /\ s'.tap[h][c].mixed = 0
                      /\ s'.tap[h][c].empty
                      /\ s'.tap[h][c].active = s.hw[h].enabled
       /\ \A h \in HW : \A c \in Range(s'.hw[h].caps) :
               LET before == IF c \in Range(s.hw[h].caps)
                             THEN s.tap[h][c].mixed ELSE 0
               IN  s'.tap[h][c].mixed > before =>
                       /\ obs'.op = "run_out_hw"
                       /\ obs'.h = h
                       /\ s'.tap[h][c].mixed - before <= obs'.drained]_vars

\* a sink was registered while a voice of the enabled hardware voice had
\* frames mixed: its tap is active and holds nothing
C19_Witness ==
    /\ obs.op = "AUD_add_capture"
    /\ s.caplist = <<obs.h>>
    /\ s.hw[1].enabled = 1
    /\ \E w \in Range(s.hw[1].sws) : s.sw[w].mixed > 0
    /\ s.tap[1][obs.h].active = 1
    /\ s.tap[1][obs.h].mixed = 0
    /\ s.tap[1][obs.h].empty

\* C20: a software voice is closed only by the cleanup pass that follows
\* the per-voice loop of audio_run_out, and only when it is inactive, has no
\* callback and is empty, with total_hw_samples_mixed = 0; the steps of the
\* per-voice loop and of the callbacks leave the list of voices as it is
C20_ClosedOnlyWhenDrained ==
    [][/\ \A w \in SW :
              (s.sw[w].open /\ ~s'.sw[w].open) =>
                  /\ obs'.op = "run_out_end"
                  /\ s.sw[w].active = 0
                  /\ ~s.sw[w].cb
                  /\ s.sw[w].empty
                  /\ s.sw[w].mixed = 0
       /\ run'.pc \in {"sw", "cb"} =>
              \A h \in HW : s'.hw[h].sws = s.hw[h].sws]_vars

\* C21: when a call of audio_attach_capture returns -1, no tap it created
\* is left in the tap list of the hardware voice or in the voice list of a
\* sink (the call starts by detaching every tap of the hardware voice, so
\* every tap found there afterwards was created by it), no sink has changed
\* its enabled flag and no callback was notified in the call
C21_FailedAttachLeavesNothing ==
    (obs.op = "AUD_add_capture" /\ obs.fail # <<>> /\ obs.fail.ret = -1) =>
        /\ obs.fail.caps = <<>>
        /\ obs.fail.sinks = {}
        /\ obs.fail.enabled_after = obs.fail.enabled_before
        /\ obs.fail.notes_after = obs.fail.notes_before

\* the settings have a channel count other than 1 or 2, an endianness other
\* than 0 or 1, an invalid sample format or a frequency <= 0
BadSettings(as) ==
    \/ as.nchannels \notin {1, 2}
    \/ as.endianness \notin {0, 1}
    \/ as.fmt \notin Formats
    \/ as.freq <= 0

\* C22: AUD_add_capture with bad settings returns NULL and leaves the list
\* of sinks, the sinks with their callbacks and voice lists, the taps and
\* the tap lists of the hardware voices as they were; nobody is notified
C22_BadSettingsRejected ==
    [][(obs'.op = "AUD_add_capture" /\ obs'.as # <<>> /\ BadSettings(obs'.as))
       => /\ obs'.ret = 0
          /\ s'.caplist = s.caplist
          /\ s'.cap = s.cap
          /\ s'.tap = s.tap
          /\ s'.hw = s.hw
          /\ s'.notes = <<>>]_vars

\* settings that are bad in their frequency alone were rejected while a
\* sink with an active tap was registered
C22_Witness ==
    /\ obs.op = "AUD_add_capture"
    /\ obs.as # <<>>
    /\ obs.as.freq = 0
    /\ obs.as.nchannels = 1 /\ obs.as.endianness = 1 /\ obs.as.fmt = "S16"
    /\ obs.ret = 0
    /\ s.caplist = <<1>>
    /\ ActiveTaps(s, 1) # {}

\* the driver audio_init was asked for is not in the table or its init
\* failed; with no driver named: the init of every driver that has options
\* failed
SelectedFailed(in) ==
    IF in.drvname # ""
    THEN in.drvname \notin Range(drvtab) \/ in.drvname \in in.fails
    ELSE in.opts \subseteq in.fails

\* C23: every AudioState audio_init returns, and every one in audio_states,
\* has a driver; when the driver asked for is unknown or its init failed the
\* state audio_init creates has the `none' driver, whose init was the last
\* one called
C23_AlwaysADriver ==
    /\ \A i \in 1..Len(s.audio_states) : s.audio_states[i].drv # ""
    /\ (obs.op = "audio_init" /\ obs.ret = 1) =>
           /\ obs.fail.drv \in Range(drvtab)
           /\ (obs.on = 1 /\ SelectedFailed(obs.as)) =>
                  /\ obs.fail.drv = "none"
                  /\ obs.fail.inits[Len(obs.fail.inits)] = "none"

\* audio_init was asked for a driver whose init failed and returned a state
\* with the `none' driver after calling both inits
C23_Witness ==
    /\ obs.op = "audio_init"
    /\ obs.ret = 1
    /\ obs.on = 1
    /\ obs.as.drvname = "spice"
    /\ obs.fail.inits = <<"spice", "none">>
    /\ obs.fail.drv = "none"

\* the frames a sequence of put_buffer_out calls accepted in all
RECURSIVE Accepted(_)
Accepted(puts) ==
    IF puts = <<>> THEN 0 ELSE Head(puts)[2] + Accepted(Tail(puts))

\* C24: in a pass of audio_run_out over a hardware voice with live > 0,
\* put_buffer_out accepts no more than it is offered, the loop of
\* audio_pcm_hw_run_out goes on only after a put that accepted all it was
\* offered and more than nothing, `played` is the sum of the frames
\* accepted, mix_buf.pos advances by that sum modulo the capacity, and the
\* counters of the voices are untouched until the per-voice loop, where no
\* voice loses more than `played`: the frames that were not accepted stay
\* counted in every voice
C24_PartialCompletion ==
    [][/\ (obs'.op = "run_out_hw" /\ obs'.live > 0) =>
           LET puts == obs'.puts
               h == obs'.h
           IN  /\ puts # <<>>
               /\ \A i \in 1..Len(puts) : puts[i][2] <= puts[i][1]
               /\ \A i \in 1..(Len(puts) - 1) :
                      puts[i][2] = puts[i][1] /\ puts[i][2] > 0
               /\ obs'.drained = Accepted(puts)
               /\ run'.played = Accepted(puts)
               /\ obs'.drained <= obs'.live
               /\ s'.hw[h].pos = (s.hw[h].pos + Accepted(puts)) % s.hw[h].samples
               /\ \A w \in Range(s.hw[h].sws) :
                      s'.sw[w].mixed = s.sw[w].mixed
       /\ obs'.op = "run_out_sw" =>
           /\ s'.sw[obs'.w].mixed <= s.sw[obs'.w].mixed
           /\ s'.sw[obs'.w].mixed >= s.sw[obs'.w].mixed - run.drained]_vars

\* a pass offered the backend two frames in two puts: the first was
\* accepted, the second was not, and both voices still count the second
C24_Witness ==
    /\ obs.op = "run_out_hw"
    /\ obs.live = 2
    /\ obs.puts = << <<1, 1>>, <<1, 0>> >>
    /\ obs.drained = 1
    /\ s.hw[obs.h].pos = 1
    /\ \A w \in Range(s.hw[obs.h].sws) : s.sw[w].mixed = 2

\* the read and write cursors of the ring buffers are within their buffers
PosWithinCapacity ==
    /\ \A h \in HW : 0 <= s.hw[h].pos /\ s.hw[h].pos < s.hw[h].samples
    /\ \A c \in CAP : 0 <= s.cap[c].pos /\ s.cap[c].pos < s.cap[c].samples
    /\ 0 <= s.hwin.pos /\ s.hwin.pos < s.hwin.size

\* a cursor moves only in the pass that owns it, by the frames the pass
\* moved, modulo the capacity
AdvanceModuloCapacity ==
    [][/\ \A h \in HW :
              s'.hw[h].pos # s.hw[h].pos =>
                  /\ obs'.op = "run_out_hw" /\ obs'.h = h
                  /\ s'.hw[h].pos =
                         (s.hw[h].pos + obs'.drained) % s.hw[h].samples
       /\ \A c \in CAP :
              s'.cap[c].pos # s.cap[c].pos =>
                  /\ obs'.op = "audio_run_capture"
                  /\ s'.cap[c].pos =
                         (s.cap[c].pos
                            + audio_pcm_hw_get_live_out(
                                  Taps(s, c), s.cap[c].samples).live)
                             % s.cap[c].samples
       /\ s'.hwin.pos # s.hwin.pos =>
              /\ obs'.op = "audio_run_in"
              /\ s'.hwin.pos = (s.hwin.pos + obs'.captured) % s.hwin.size]_vars

\* C25: the position cursor of the mix buffer of every playback hardware
\* voice, of the conversion buffer of the capture hardware voice and of the
\* mix buffer of every capture sink satisfies 0 <= pos < capacity in every
\* reachable state, and every advance is by the frames moved modulo the
\* capacity
C25_CursorWithinCapacity == []PosWithinCapacity /\ AdvanceModuloCapacity

\* a pass of audio_run_in captured frames up to the end of the conversion
\* buffer and its cursor is back at 0, while the cursors of the playback mix
\* buffer and of the sink have moved and the frames the voice has mixed lie
\* across the end of the mix buffer
C25_Witness ==
    /\ obs.op = "audio_run_in"
    /\ obs.captured > 0
    /\ s.hwin.pos = 0
    /\ s.hw[1].pos = 1
    /\ s.cap[1].pos = 1
    /\ s.sw[1].mixed = s.hw[1].samples

\* no hardware voice has a tap of a sink that is not registered
NoDanglingTap ==
    \A h \in HW : Range(s.hw[h].caps) \subseteq Range(s.caplist)

\* what a call of AUD_del_capture on sink obs'.h with opaque obs'.w does
DelCaptureContract ==
    [][obs'.op = "AUD_del_capture" =>
          LET c == obs'.h
              cb == obs'.w
          IN  /\ \A d \in CAP \ {c} : s'.cap[d] = s.cap[d]
              /\ \A h \in HW : \A d \in CAP \ {c} : s'.tap[h][d] = s.tap[h][d]
              /\ IF cb \notin Range(s.cap[c].cbs)
                 THEN /\ s'.destroyed = <<>>
                      /\ s'.caplist = s.caplist
                      /\ s'.cap = s.cap
                      /\ s'.tap = s.tap
                      /\ s'.hw = s.hw
                 ELSE /\ s'.destroyed = << <<c, cb>> >>
                      /\ s'.cap[c].cbs = Without(s.cap[c].cbs, cb)
                      /\ Len(s'.cap[c].cbs) = Len(s.cap[c].cbs) - 1
                      /\ IF s.cap[c].cbs = <<cb>>
                         THEN /\ s'.caplist = Without(s.caplist, c)
                              /\ c \notin Range(s'.caplist)
                              /\ s'.cap[c].sws = <<>>
                              /\ \A h \in HW :
                                     /\ c \notin Range(s'.hw[h].caps)
                                     /\ s'.hw[h].caps =
                                            Without(s.hw[h].caps, c)
                         ELSE /\ s'.caplist = s.caplist
                              /\ s'.cap[c].sws = s.cap[c].sws
                              /\ s'.tap = s.tap
                              /\ s'.hw = s.hw]_vars

\* C26: AUD_del_capture calls the destroy hook of the callback it
\* unregisters once and removes that callback alone; with the last callback
\* of a sink the sink leaves the sink list and each of its taps leaves the
\* tap list of its hardware voice, the taps of other sinks staying, so that
\* no hardware voice keeps a tap of a sink that is gone; an opaque value
\* that matches no callback changes nothing and destroys nothing
C26_DelCapture == []NoDanglingTap /\ DelCaptureContract

\* the last callback of a sink with an active tap was unregistered while
\* another sink is registered: the taps of the other sink are all that the
\* hardware voices have left
C26_Witness ==
    /\ obs.op = "AUD_del_capture"
    /\ s.destroyed = << <<obs.h, obs.w>> >>
    /\ obs.h \notin Range(s.caplist)
    /\ \E d \in CAP :
           /\ s.caplist = <<d>>
           /\ \A h \in HW : s.hw[h].caps = <<d>>
           /\ ActiveTaps(s, d) # {}

\* log2 of the bytes of a sample of `bits` bits
Log2Bytes(bits) == CHOOSE k \in 0..2 : 8 * 2^k = bits

\* shift = (nchannels == 2) + log2(bytes per sample) and
\* align = (1 << shift) - 1; a byte count with no bit of align set comes
\* back unchanged from >> shift and << shift
ShiftAndAlign ==
    /\ s.info # <<>> =>
           /\ s.info.bits \in {8, 16, 32}
           /\ s.info.shift = (IF s.as.nchannels = 2 THEN 1 ELSE 0)
                                 + Log2Bytes(s.info.bits)
           /\ s.info.align = 2^s.info.shift - 1
    /\ (obs.op = "convert" /\ BitAnd(obs.size, s.info.align) = 0) =>
           obs.offered = obs.size

\* C27: for all valid settings audio_pcm_init_info sets
\* shift = (nchannels == 2) + log2(bytes per sample),
\* align = (1 << shift) - 1 and bytes_per_second = freq * 2^shift, and a
\* frame-aligned byte count converted to frames and back is unchanged
C27_InitInfo ==
    /\ ShiftAndAlign
    /\ s.info # <<>> =>
           s.info.bytes_per_second = s.as.freq * 2^s.info.shift

\* C27, amended: the same, with bytes_per_second = freq * 2^shift for the
\* frequencies for which freq * 2^shift is an int
C27_InitInfoWithinInt ==
    /\ ShiftAndAlign
    /\ (s.info # <<>> /\ s.as.freq * 2^s.info.shift <= INT_MAX) =>
           s.info.bytes_per_second = s.as.freq * 2^s.info.shift

\* the info of a stereo stream of 32 bit samples has shift 3 and align 7,
\* and 16 bytes were converted to 2 frames and back to 16 bytes
C27_Witness ==
    /\ s.info # <<>>
    /\ s.as.nchannels = 2 /\ s.as.fmt = "S32"
    /\ s.info.shift = 3 /\ s.info.align = 7
    /\ s.info.bytes_per_second = 8 * s.as.freq
    /\ obs.op = "convert"
    /\ obs.size = 16 /\ obs.ret = 2 /\ obs.offered = 16

\* frame i of a buffer of `size` frames lies in the window of len frames
\* that starts at pos
InWindow(i, pos, len, size) == (i - pos) % size < len

\* the longest total_hw_samples_mixed of the voices attached to h
MaxMixed(st, h) ==
    LET ms == {st.sw[w].mixed : w \in Range(st.hw[h].sws)} \cup {0}
    IN  CHOOSE m \in ms : \A n \in ms : n <= m

ZeroOutsideWindow ==
    run.pc = "idle" =>
        \A h \in HW : \A i \in DOMAIN s.buf[h] :
            ~InWindow(i, s.hw[h].pos, MaxMixed(s, h), s.hw[h].samples) =>
                s.buf[h][i] = {}

\* a pass that drained `played` frames of h zeroes the played frames from
\* the previous read position on and leaves the others; a write zeroes
\* none, and no other step touches a frame
ClearsExactlyPlayed ==
    /\ obs'.op = "run_out_hw" =>
           \A h \in HW : \A i \in DOMAIN s.buf[h] :
               s'.buf[h][i] =
                   IF h = obs'.h /\ InWindow(i, s.hw[h].pos, obs'.played,
                                             s.hw[h].samples)
                   THEN {} ELSE s.buf[h][i]
    /\ obs'.op \in {"AUD_write", "cb_AUD_write"} =>
           \A h \in HW : \A i \in DOMAIN s.buf[h] :
               s.buf[h][i] \subseteq s'.buf[h][i]
    /\ obs'.op \notin {"run_out_hw", "AUD_write", "cb_AUD_write"} =>
           s'.buf = s.buf

\* C28: between engine operations every frame of the mix buffer of a
\* playback hardware voice outside the window of
\* max(total_hw_samples_mixed over the attached voices) frames from
\* mix_buf.pos on is zero, and audio_run_out zeroes exactly the played
\* frames from the previous read position on, wrapping
C28_ZeroOutsideWindow == []ZeroOutsideWindow /\ [][ClearsExactlyPlayed]_vars

\* C29: pending_disable = 1 on a playback hardware voice implies that the
\* hardware voice is enabled and that none of its attached voices is active
C29_PendingImpliesEnabledAndIdle ==
    \A h \in HW :
        s.hw[h].pending_disable = 1 =>
            /\ s.hw[h].enabled = 1
            /\ \A w \in Range(s.hw[h].sws) : s.sw[w].active = 0

\* the last active voice of hardware voice 1 was switched off with frames
\* still mixed: the disable is pending and the hardware voice is enabled
C29_Witness ==
    /\ obs.op \in SetActiveOps /\ obs.on = 0 /\ obs.pre_active = 1
    /\ obs.pre_pending = 0
    /\ s.hw[1].pending_disable = 1 /\ s.hw[1].enabled = 1
    /\ \A w \in Range(s.hw[1].sws) : s.sw[w].active = 0
    /\ \E w \in Range(s.hw[1].sws) : s.sw[w].mixed > 0

\* the bug check of the per-voice loop did not fire in the latest step
NoBugCheck == ~obs.bug

\* a turn of the per-voice loop leaves `played` as the pass drained it
PlayedKept ==
    (run.pc = "sw" /\ run.dec /\ run.swq # <<>> /\ run'.pc \in {"sw", "cb"})
        => run'.played = run.drained

\* C30: the bug check played > sw->total_hw_samples_mixed of audio_run_out
\* never fires, whatever the callbacks called inside the per-voice loop do
\* (AUD_write on their own voice, AUD_set_active_out on a voice of the same
\* hardware voice), and no voice visited later in the pass is decremented
\* by a clamped `played`
C30_BugCheckUnreachable == []NoBugCheck /\ [][PlayedKept]_vars

\* C31: with the generic output buffer emulation, ctl_out(VOICE_DISABLE) is
\* not issued while bytes accepted by audio_generic_put_buffer_out are
\* still pending: every byte counted as played has been passed to
\* pcm_ops->write before the hardware voice is disabled
C31_NoDisableWhilePending ==
    [][(obs'.op = "run_out_disable" /\ s.mixeng /\ s.emul # <<>>)
          => s.emul.pending = 0]_vars

\* 0 <= pending_emul <= size_emul and 0 <= pos_emul < size_emul
EmulWithinBounds ==
    s.emul # <<>> =>
        /\ 0 <= s.emul.pending /\ s.emul.pending <= s.emul.size
        /\ 0 <= s.emul.pos /\ s.emul.pos < s.emul.size

\* the assertion of audio_generic_put_buffer_out_nowrite held in every call
\* of the latest step
EmulAsserted == obs.emul # <<>> => obs.emul.asserted

\* what a step passes to pcm_ops->write are the accepted bytes that follow
\* the ones passed before, in the order they were accepted
EmulFifo ==
    obs'.emul # <<>> =>
        LET before == IF s.emul = <<>> THEN 0 ELSE s.emul.wrn
        IN  obs'.emul.written =
                [k \in 1..Len(obs'.emul.written) |-> (before + k) % IdMod]

\* C32: for the generic output buffer emulation pending_emul and pos_emul
\* stay within size_emul, the assertion of
\* audio_generic_put_buffer_out_nowrite holds on every call the engine
\* makes, also through audio_generic_write, and the bytes passed to
\* pcm_ops->write are the accepted bytes in FIFO order, each at most once
C32_EmulationSound ==
    []EmulWithinBounds /\ []EmulAsserted /\ [][EmulFifo]_vars

\* the bytes a call of audio_pcm_hw_run_in hands to the engine are the bytes
\* read from the backend that follow the ones handed over before
DeliveredInOrder ==
    obs'.op = "audio_pcm_hw_run_in" =>
        s'.hwin.dlv = [k \in 1..Len(s'.hwin.dlv) |-> (s.dln + k) % IdMod]

\* C33: the generic input buffer emulation is a FIFO: the bytes handed to
\* the engine by the get_buffer_in/put_buffer_in pairs are the bytes
\* pcm_ops->read returned, in order, each once and none overwritten before
\* it is delivered, and 0 <= pending_emul <= size_emul
C33_InputFifo ==
    /\ [](0 <= s.hwin.pending_emul /\ s.hwin.pending_emul <= s.hwin.size_emul)
    /\ [][DeliveredInOrder]_vars

\* C34: for the spice playback backend the assertion of line_out_put_buffer
\* (buf == out->frame + out->fpos and out->fpos <= out->fsize) holds for
\* every get_buffer_out/put_buffer_out pair of audio_pcm_hw_run_out with a
\* non-zero size, and a frame is submitted to the server exactly when fpos
\* reaches fsize
C34_SpiceAssertion ==
    \A k \in 1..Len(obs.puts) :
        (obs.op = "run_out_hw" /\ "fpos" \in DOMAIN obs.puts[k]) =>
            /\ obs.puts[k].size # 0 => obs.puts[k].asserted
            /\ obs.puts[k].submitted <=> obs.puts[k].fpos = obs.puts[k].fsize

\* the engine thread never locks the mutex it holds
NoRelock ==
    (obs'.op = "coreaudio_lock" /\ obs'.emul.by = "engine") =>
        s.mutex # "engine"

\* C35: no engine-thread operation of the coreaudio backend acquires the
\* voice mutex while holding it: coreaudio_write, coreaudio_get_buffer_out
\* and coreaudio_put_buffer_out_nowrite return with the mutex released and
\* never deadlock on themselves
C35_NoSelfDeadlock ==
    /\ [][NoRelock]_vars
    /\ [](run.eng.pc = "idle" => s.mutex # "engine")
    /\ [](run.eng.pc # "deadlocked")

\* pending_emul stays within 0..size_emul
CorePendingWithinSize ==
    s.emul # <<>> => (0 <= s.emul.pending /\ s.emul.pending <= s.emul.size)

\* each round of the copy loop takes the oldest pending bytes, and a call
\* of audioDeviceIOProc takes audioDevicePropertyBufferFrameSize frames in
\* all, or nothing when fewer frames were pending
IoConsumesFrames ==
    /\ obs'.op = "audioDeviceIOProc_copy" =>
           /\ obs'.emul.asserted
           /\ obs'.emul.copied =
                  [k \in 1..Len(obs'.emul.copied) |->
                      (s.emul.wrn + k) % IdMod]
    /\ obs'.op = "audioDeviceIOProc" =>
           /\ obs'.emul.short <=>
                  Shr(obs'.emul.before, InfoShift)
                      < audioDevicePropertyBufferFrameSize
           /\ Len(obs'.emul.written) =
                  (IF obs'.emul.short THEN 0
                   ELSE Shl(audioDevicePropertyBufferFrameSize, InfoShift))
           /\ CorePending(s'.emul) =
                  obs'.emul.before - Len(obs'.emul.written)

\* a step that reads or writes pending_emul or pos_emul is taken by the
\* thread that holds the mutex
AccessUnderMutex ==
    "access" \in DOMAIN obs'.emul => s.mutex = obs'.emul.by

\* C36: under every interleaving of audioDeviceIOProc with the engine
\* thread's get_buffer_out and put_buffer_out_nowrite, pending_emul stays
\* within 0..size_emul, each call of audioDeviceIOProc consumes exactly
\* audioDevicePropertyBufferFrameSize frames of the oldest pending bytes in
\* FIFO order, or nothing when fewer frames are pending, and pending_emul
\* and pos_emul are accessed with the voice mutex held
C36_IoThreadFifo ==
    /\ []CorePendingWithinSize
    /\ [][IoConsumesFrames]_vars
    /\ [][AccessUnderMutex]_vars

\* audioDeviceIOProc has consumed a frame that wrapped round the end of
\* buf_emul while the engine thread was between its get_buffer_out and its
\* put_buffer_out_nowrite
C36_Witness ==
    /\ obs.op = "audioDeviceIOProc"
    /\ Len(obs.emul.written) =
           Shl(audioDevicePropertyBufferFrameSize, InfoShift)
    /\ run.eng.pc = "lock"
    /\ run.eng.next = "put"
    /\ s.emul.acc > s.emul.size

\* the backend of hardware voice h has VOICE_ENABLE as its latest command
BackendOn(h) == LatestCmd(s.cmd[h], s.ctl, h) = VOICE_ENABLE

\* C37: with and without the mixing engine, the backend of a playback
\* hardware voice has received VOICE_ENABLE as its latest enable/disable
\* command if and only if hw.enabled = 1 and the VM is running, after every
\* AUD_set_active_out, audio_run_out and change of the VM run state
C37_BackendFollowsEnabled ==
    (run.pc = "idle" \/ obs.op = "cb_AUD_set_active_out") =>
        \A h \in Range(s.hwlist) :
            BackendOn(h) <=> (s.hw[h].enabled = 1 /\ s.vm_running)

\* C38: every callback registered on an enabled capture sink has
\* AUD_CNOTIFY_ENABLE as the last notification it received, also a callback
\* that AUD_add_capture added to a sink that existed and was enabled
C38_CallbacksKnowEnabled ==
    \A c \in Range(s.caplist) :
        s.cap[c].enabled = 1 =>
            \A b \in Range(s.cap[c].cbs) :
                s.lastnote[c][b] = <<AUD_CNOTIFY_ENABLE>>

\* an enabled playback or capture hardware voice is not in poll mode
VoiceNeedsTimer ==
    \/ \E h \in Range(s.hwlist) :
           s.hw[h].enabled = 1 /\ s.poll_mode[h] = 0
    \/ s.hwin.enabled = 1 /\ s.poll_mode[0] = 0

\* C39: whenever the VM is running and an enabled playback or capture
\* hardware voice is not in poll mode, the timer of the engine is armed
\* after AUD_set_active_out, AUD_set_active_in, audio_timer and the handler
\* of the VM run state return; after audio_timer found no such voice the
\* timer is deleted
C39_TimerArmedWhenNeeded ==
    run.pc = "idle" =>
        /\ (s.vm_running /\ VoiceNeedsTimer) => s.ts
        /\ (obs.op = "audio_timer" /\ ~VoiceNeedsTimer) => ~s.ts

\* audio_timer has returned with the capture hardware voice the only one
\* enabled, and has armed the timer again
C39_Witness ==
    /\ run.pc = "idle"
    /\ obs.op = "audio_timer"
    /\ s.vm_running
    /\ s.hwin.enabled = 1
    /\ \A h \in Range(s.hwlist) : s.hw[h].enabled = 0
    /\ s.ts

\* the bytes of whole frames under the settings of the options
LegacyFrameBytes ==
    s.opts.channels
        * audioformat_bytes_per_sample(LegacySettings(s.opts).fmt)

\* C40: for the same frequency, channel count and format, a frame-aligned
\* buffer size in bytes that bytes_to_usecs turns into microseconds comes
\* back from audio_buffer_bytes as the same byte count, and a frame count
\* that frames_to_usecs turns into microseconds comes back from
\* audio_buffer_frames as the same frame count
C40_LegacyRoundTrip ==
    /\ (obs.op = "bytes_to_usecs" /\ obs.size % LegacyFrameBytes = 0) =>
           obs.ret = obs.size
    /\ obs.op = "frames_to_usecs" => obs.ret = obs.size

====
